---- MODULE Spec2Model ----
(***************************************************************************)
(* LR-tree (R-tree family) of MrShiposha/lcrr-tree: the object space (two  *)
(* arenas), the dynamic insert / split / fix-up engine, the static LR      *)
(* builder, the search traversal, soft deletion, the insert hooks and the *)
(* locking of the facade, as in src/src/tree/.                             *)
(* Coordinates are integers (the tests use i32, the property test i64);    *)
(* `/` on them truncates toward zero and faults on a zero divisor.         *)
(***************************************************************************)
EXTENDS Integers, Sequences, FiniteSets, TLC

VARIABLES
    obj_space,      \* LRTree.obj_space: the ObjSpace behind the RwLock
    poisoned,       \* a writer panicked while holding the lock (RwLock poisoning)
    store_checked,  \* whether the slab store faults on access to a freed id
    log,            \* history: the names of the writes applied so far, in order
    callbacks,      \* the calls the last write made to the caller's hooks or predicate
    threads         \* the threads of a concurrent run and the state of the RwLock

vars == <<obj_space, poisoned, store_checked, log, callbacks, threads>>

----------------------------------------------------------------------------
(* Bounds of the explored instances *)

MaxDynData == 8     \* data nodes allocated in an insert-only run
MaxData == 5        \* data nodes beyond which a run with other operations inserts no more
MaxRebuilds == 1    \* calls of rebuild in one run
MaxPreload == 2     \* objects given to with_data, when few
MaxRemove == 1      \* mark_as_removed is given ids below this number
MaxOps == 3         \* operations that follow the leading inserts of a run of all operations

----------------------------------------------------------------------------
(* Generic helpers *)

Min2(a, b) == IF a <= b THEN a ELSE b

SeqToSet(s) == {s[i] : i \in 1..Len(s)}

\* Vec::swap_remove(idx0) with a 0-based index: the last element takes the hole
swap_remove(s, idx0) ==
    LET n == Len(s)
    IN [i \in 1..(n - 1) |-> IF i = idx0 + 1 THEN s[n] ELSE s[i]]

\* slice::swap with 0-based indices
swap(s, i0, j0) ==
    [k \in 1..Len(s) |-> IF k = i0 + 1 THEN s[j0 + 1]
                         ELSE IF k = j0 + 1 THEN s[i0 + 1] ELSE s[k]]

\* Rust integer division: truncates toward zero (the divisor is never 0 here)
TruncDiv(a, b) ==
    LET q == (IF a < 0 THEN -a ELSE a) \div (IF b < 0 THEN -b ELSE b)
    IN IF (a < 0) = (b < 0) THEN q ELSE -q

RECURSIVE Pow(_, _)
Pow(b, e) == IF e = 0 THEN 1 ELSE b * Pow(b, e - 1)

----------------------------------------------------------------------------
(* MBR algebra: src/src/tree/mbr.rs *)

Bounds(lo, hi) == [min |-> lo, max |-> hi]

is_in_bound(b, value) == b.min <= value /\ value <= b.max

length(b) == b.max - b.min

\* an MBR is the sequence of its Bounds; the undefined MBR is the empty one
undefined == <<>>

is_undefined(m) == Len(m) = 0

mbr_dimension(m) == Len(m)

RECURSIVE volume_fold(_, _, _)
volume_fold(m, i, acc) ==
    IF i > Len(m) THEN acc ELSE volume_fold(m, i + 1, acc * length(m[i]))

volume(m) == IF Len(m) = 0 THEN 0 ELSE volume_fold(m, 2, length(m[1]))

\* intersects without its third test, the one for an `rhs` that encloses `lhs`
intersects_ends(lhs, rhs) ==
    \A i \in 1..Len(lhs) :
        is_in_bound(lhs[i], rhs[i].min) \/ is_in_bound(lhs[i], rhs[i].max)

\* intersects that wants the two intervals to share more than an end point
intersects_inner(lhs, rhs) ==
    \A i \in 1..Min2(mbr_dimension(lhs), mbr_dimension(rhs)) :
        lhs[i].min < rhs[i].max /\ rhs[i].min < lhs[i].max

intersects(lhs, rhs) ==
    LET min_dim == Min2(mbr_dimension(lhs), mbr_dimension(rhs))
        intersected_axis == Cardinality({i \in 1..min_dim :
            \/ is_in_bound(lhs[i], rhs[i].min)
            \/ is_in_bound(lhs[i], rhs[i].max)
            \/ is_in_bound(rhs[i], lhs[i].min)})
    IN intersected_axis = min_dim

RECURSIVE bounds_min(_, _, _)
bounds_min(bs, i, acc) ==
    IF i > Len(bs) THEN acc
    ELSE bounds_min(bs, i + 1, IF bs[i].min < acc THEN bs[i].min ELSE acc)

RECURSIVE bounds_max(_, _, _)
bounds_max(bs, i, acc) ==
    IF i > Len(bs) THEN acc
    ELSE bounds_max(bs, i + 1, IF bs[i].max > acc THEN bs[i].max ELSE acc)

\* pads src with the bounds (min, max) of the whole target, not inverted
extend_bounds_upright(src_bounds, target_bounds) ==
    src_bounds \o [i \in 1..(Len(target_bounds) - Len(src_bounds)) |->
                     Bounds(bounds_min(target_bounds, 1, target_bounds[1].min),
                            bounds_max(target_bounds, 1, target_bounds[1].max))]

\* pads src with inverted bounds (max, min) of the whole target
extend_bounds(src_bounds, target_bounds) ==
    LET lo == bounds_min(target_bounds, 1, target_bounds[1].min)
        hi == bounds_max(target_bounds, 1, target_bounds[1].max)
        bounds_diff == Len(target_bounds) - Len(src_bounds)
    IN src_bounds \o [i \in 1..bounds_diff |-> Bounds(hi, lo)]

\* common_mbr that keeps the first of two defined MBRs
common_mbr_lhs(lhs, rhs) == IF is_undefined(lhs) THEN rhs ELSE lhs

common_mbr(lhs, rhs) ==
    LET lhs_dim == mbr_dimension(lhs)
        rhs_dim == mbr_dimension(rhs)
        lhs_bounds == IF lhs_dim < rhs_dim THEN extend_bounds(lhs, rhs) ELSE lhs
        rhs_bounds == IF lhs_dim > rhs_dim THEN extend_bounds(rhs, lhs) ELSE rhs
    IN [i \in 1..Min2(Len(lhs_bounds), Len(rhs_bounds)) |->
            Bounds(IF lhs_bounds[i].min < rhs_bounds[i].min
                       THEN lhs_bounds[i].min ELSE rhs_bounds[i].min,
                   IF lhs_bounds[i].max > rhs_bounds[i].max
                       THEN lhs_bounds[i].max ELSE rhs_bounds[i].max)]

RECURSIVE common_mbr_fold(_, _, _)
common_mbr_fold(mbrs, i, common) ==
    IF i > Len(mbrs) THEN common
    ELSE common_mbr_fold(mbrs, i + 1, common_mbr(common, mbrs[i]))

\* mbrs: the sequence of MBRs the iterator yields
common_mbr_from_iter(mbrs) == common_mbr_fold(mbrs, 1, undefined)

mbr_delta(src, addition) == volume(common_mbr(src, addition)) - volume(src)

----------------------------------------------------------------------------
(* Record identity: src/src/tree/node.rs *)

Root == [kind |-> "Root", id |-> 0]
Internal(id) == [kind |-> "Internal", id |-> id]
Leaf(id) == [kind |-> "Leaf", id |-> id]
Data(id) == [kind |-> "Data", id |-> id]

from_node_id(id, kind) == [kind |-> kind, id |-> id]

\* set_kind that leaves the tag as it was
set_kind_keep(rid, kind) == rid

set_kind(rid, kind) == [kind |-> kind, id |-> rid.id]

----------------------------------------------------------------------------
(* The slab store behind data_nodes (crate id_storage, outside the         *)
(* repository): ids are slot indices handed out in order and never reused  *)
(* before a compaction; freed ids are parked until restore or shrink.      *)

storage_new == [slots |-> <<>>, freed |-> {}]

storage_insert(st, node) == [st EXCEPT !.slots = Append(@, node)]

storage_volume(st) == Len(st.slots) - Cardinality(st.freed)

storage_is_empty(st) == storage_volume(st) = 0

RECURSIVE storage_live_from(_, _)
storage_live_from(st, id) ==
    IF id >= Len(st.slots) THEN <<>>
    ELSE (IF id \in st.freed THEN <<>> ELSE <<id>>) \o storage_live_from(st, id + 1)

\* the live ids in increasing order
storage_iter_ids(st) == storage_live_from(st, 0)

storage_free_ids(st, ids) ==
    [st EXCEPT !.freed = @ \cup (ids \cap (0..(Len(st.slots) - 1)))]

storage_restore_freed(st) == [st EXCEPT !.freed = {}]

\* a dense copy of the live slots, in id order
storage_shrink(st) ==
    LET live == storage_iter_ids(st)
    IN [slots |-> [i \in 1..Len(live) |-> st.slots[live[i] + 1]], freed |-> {}]

\* get / get_mut of a freed id: the store either faults or hands out the parked slot
storage_get_faults(st, id) == store_checked /\ id \in st.freed

----------------------------------------------------------------------------
(* Object space: src/src/tree/obj_space.rs.  The field `panicked` is model *)
(* bookkeeping: a panic was raised while the operation at hand was running *)

with_mbr(mbr) == [parent_id |-> Root, mbr |-> mbr, payload |-> <<>>]

make_data_node_raw(object, mbr) == [parent_id |-> Root, mbr |-> mbr, payload |-> object]

get_node(os, id) == os.nodes[id.id + 1]

get_data(os, id) == os.data_nodes.slots[id + 1]

get_mbr(os, id) ==
    IF id.kind = "Data" THEN get_data(os, id.id).mbr ELSE os.nodes[id.id + 1].mbr

\* the access to `id` that get_mbr / set_parent_info make: faults on a freed data id
access(os, id) ==
    IF id.kind = "Data" /\ storage_get_faults(os.data_nodes, id.id)
    THEN [os EXCEPT !.panicked = TRUE] ELSE os

\* set_mbr that stores nothing
set_mbr_skip(os, id, mbr) == os

set_mbr(os, id, mbr) ==
    IF id.kind = "Data" THEN [os EXCEPT !.data_nodes.slots[id.id + 1].mbr = mbr]
    ELSE [os EXCEPT !.nodes[id.id + 1].mbr = mbr]

\* the id make_node / make_node_with_mbr returns
next_node_id(os, node_id_kind) == from_node_id(Len(os.nodes), node_id_kind)

make_node_with_mbr(os, node_id_kind, mbr) == [os EXCEPT !.nodes = Append(@, with_mbr(mbr))]

make_node(os, node_id_kind) == make_node_with_mbr(os, node_id_kind, undefined)

make_data_node(os, object, mbr) ==
    [os EXCEPT !.data_nodes = storage_insert(@, make_data_node_raw(object, mbr))]

with_data_nodes(dim, min_r, max_r, data_nodes) ==
    LET storage == [nodes |-> <<>>, data_nodes |-> data_nodes, dimension |-> dim,
                    min_records |-> min_r, max_records |-> max_r, root_id |-> Root,
                    panicked |-> FALSE]
    IN [make_node(storage, "Leaf") EXCEPT !.root_id = next_node_id(storage, "Leaf")]

\* assertions that let min_records reach half of max_records and one more
valid_params_lax(dim, min_r, max_r) ==
    dim > 0 /\ min_r >= 2 /\ min_r <= (max_r \div 2) + 1

\* the three assertions of with_data_nodes; (max_records / 2).ceil() is (max_records + 1) div 2
valid_params(dim, min_r, max_r) ==
    dim > 0 /\ min_r >= 2 /\ min_r <= (max_r + 1) \div 2

ObjSpace_new(dim, min_r, max_r) == with_data_nodes(dim, min_r, max_r, storage_new)

\* data: the sequence of <<object, mbr>> pairs
with_data(dim, min_r, max_r, data) ==
    with_data_nodes(dim, min_r, max_r,
        [slots |-> [i \in 1..Len(data) |-> make_data_node_raw(data[i][1], data[i][2])],
         freed |-> {}])

\* clone_shrinked that copies the store as it is
clone_unshrinked(os) ==
    with_data_nodes(os.dimension, os.min_records, os.max_records, os.data_nodes)

clone_shrinked(os) ==
    with_data_nodes(os.dimension, os.min_records, os.max_records,
                    storage_shrink(os.data_nodes))

clear_tree_structure(os) ==
    LET cleared == [os EXCEPT !.nodes = <<>>]
    IN [make_node(cleared, "Leaf") EXCEPT !.root_id = next_node_id(cleared, "Leaf")]

data_num(os) == storage_volume(os.data_nodes)

is_empty(os) == storage_is_empty(os.data_nodes)

is_unordered(os) == ~is_empty(os) /\ Len(os.nodes[1].payload) = 0

get_root_mbr(os) == get_mbr(os, os.root_id)

\* iter_data_ids over every slot, the freed ones too
iter_every_id(os) == [i \in 1..Len(os.data_nodes.slots) |-> Data(i - 1)]

\* iter_data_ids, as the Vec rebuild collects
iter_data_ids(os) ==
    LET ids == storage_iter_ids(os.data_nodes)
    IN [i \in 1..Len(ids) |-> Data(ids[i])]

\* mark_as_removed that frees nothing
mark_as_removed_none(os, data_ids) == os

mark_as_removed(os, data_ids) ==
    [os EXCEPT !.data_nodes = storage_free_ids(@, data_ids)]

\* restore_removed that restores nothing
restore_removed_none(os) == os

restore_removed(os) == [os EXCEPT !.data_nodes = storage_restore_freed(@)]

\* set_parent_info that leaves the record's parent as it was
set_parent_info_skip(os, id, parent_id) == os

set_parent_info(os, id, parent_id) ==
    IF id.kind = "Data"
    THEN [access(os, id) EXCEPT !.data_nodes.slots[id.id + 1].parent_id = parent_id]
    ELSE [os EXCEPT !.nodes[id.id + 1].parent_id = parent_id]

\* add_child that pushes the child and leaves the node's MBR as it was
add_child_unfixed(os, id, child_id) ==
    [access(os, child_id) EXCEPT !.nodes[id.id + 1].payload = Append(@, child_id)]

add_child(os, id, child_id) ==
    LET child_mbr == get_mbr(os, child_id)
        node == get_node(os, id)
        new_parent_mbr == IF Len(node.payload) + 1 = 1 THEN child_mbr
                          ELSE common_mbr(node.mbr, child_mbr)
    IN [access(os, child_id) EXCEPT !.nodes[id.id + 1].payload = Append(@, child_id),
                                    !.nodes[id.id + 1].mbr = new_parent_mbr]

add_child_raw(os, id, child_id) ==
    [os EXCEPT !.nodes[id.id + 1].payload = Append(@, child_id)]

\* bind!([obj_space] parent => child)
bind(os, parent_node_id, child_id) ==
    set_parent_info(add_child(os, parent_node_id, child_id), child_id, parent_node_id)

\* a bind of the set that binds none of it
bind_set_none(os, parent_node_id, child_ids) == os

\* bind!([obj_space] parent => set(children)): pops the children off the end
RECURSIVE bind_set(_, _, _)
bind_set(os, parent_node_id, child_ids) ==
    IF Len(child_ids) = 0 THEN os
    ELSE bind_set(bind(os, parent_node_id, child_ids[Len(child_ids)]),
                  parent_node_id, SubSeq(child_ids, 1, Len(child_ids) - 1))

\* InternalNode::abort_children: the children are taken out, the MBR is reset
abort_children(os, id) ==
    [os EXCEPT !.nodes[id.id + 1].mbr = undefined, !.nodes[id.id + 1].payload = <<>>]

----------------------------------------------------------------------------
(* Search: src/src/tree/mod.rs *)

\* the result is the sequence of record ids handed to the handler, and whether
\* the traversal faulted on a freed data id
RECURSIVE search_children(_, _, _, _)
RECURSIVE search_helper(_, _, _)
search_helper(os, node_id, area) ==
    IF is_empty(os) THEN [found |-> <<>>, panicked |-> FALSE]
    ELSE search_children(os, node_id, area, 1)

search_children(os, node_id, area, i) ==
    LET payload == get_node(os, node_id).payload
    IN IF i > Len(payload) THEN [found |-> <<>>, panicked |-> FALSE]
       ELSE LET child_id == payload[i]
                hit == intersects(get_mbr(os, child_id), area)
                here == IF ~hit THEN [found |-> <<>>, panicked |-> FALSE]
                        ELSE IF node_id.kind = "Leaf"
                             THEN [found |-> <<child_id>>, panicked |-> FALSE]
                             ELSE search_helper(os, child_id, area)
                rest == search_children(os, node_id, area, i + 1)
            IN [found |-> here.found \o rest.found,
                panicked |-> \/ access(os, child_id).panicked
                             \/ here.panicked \/ rest.panicked]

\* LRTree::search: the node ids found, in the order found
search(os, area) ==
    LET result == search_helper(os, os.root_id, area).found
    IN [i \in 1..Len(result) |-> result[i].id]

search_panics(os, area) == search_helper(os, os.root_id, area).panicked

\* the caller's predicate of retain, given as the set of ids it wants kept
predicate(keep, data_id) == data_id \in keep

\* the calls LRTree::retain makes to the predicate, in order
retain_calls(os, area, keep) ==
    LET found == search(os, area)
    IN [i \in 1..Len(found) |-> [id |-> found[i], kept |-> predicate(keep, found[i])]]

\* the remove_list of LRTree::retain
remove_list(os, area, keep) ==
    LET found == search(os, area)
    IN SelectSeq(found, LAMBDA data_id : ~predicate(keep, data_id))

\* retain that removes what the predicate wants kept
retain_kept(os, area, keep) ==
    IF search_panics(os, area) THEN [os EXCEPT !.panicked = TRUE]
    ELSE mark_as_removed(os, SeqToSet(search(os, area)) \ SeqToSet(remove_list(os, area, keep)))

\* LRTree::retain(area, predicate)
retain(os, area, keep) ==
    IF search_panics(os, area) THEN [os EXCEPT !.panicked = TRUE]
    ELSE mark_as_removed(os, SeqToSet(remove_list(os, area, keep)))

----------------------------------------------------------------------------
(* Dynamic engine: src/src/tree/mod.rs *)

None == [kind |-> "None", id |-> 0]     \* Option::None of a RecordId

\* a comparator that looks at the delta alone
select_ordering_delta(lhs_delta, rhs_delta, lhs_volume, rhs_volume) ==
    IF lhs_delta < rhs_delta THEN "Less"
    ELSE IF lhs_delta > rhs_delta THEN "Greater"
    ELSE "Equal"

\* the comparator of min_by in select_node: delta first, then volume
select_ordering(lhs_delta, rhs_delta, lhs_volume, rhs_volume) ==
    IF lhs_delta < rhs_delta THEN "Less"
    ELSE IF lhs_delta > rhs_delta THEN "Greater"
    ELSE IF lhs_volume < rhs_volume THEN "Less"
    ELSE IF lhs_volume > rhs_volume THEN "Greater"
    ELSE "Equal"

select_cmp_mbr(mbr, lhs_mbr, rhs_mbr) ==
    select_ordering(mbr_delta(lhs_mbr, mbr), mbr_delta(rhs_mbr, mbr),
                    volume(lhs_mbr), volume(rhs_mbr))

select_cmp(os, mbr, lhs_id, rhs_id) ==
    select_cmp_mbr(mbr, get_mbr(os, lhs_id), get_mbr(os, rhs_id))

\* Iterator::min_by keeps the first of several equally minimal elements
RECURSIVE select_min_by(_, _, _, _, _)
select_min_by(os, mbr, payload, i, best) ==
    IF i > Len(payload) THEN best
    ELSE select_min_by(os, mbr, payload, i + 1,
            IF select_cmp(os, mbr, best, payload[i]) = "Greater" THEN payload[i] ELSE best)

\* the loop of select_node with the predicate insert_transaction passes (a Leaf id);
\* None: unwrap() of the minimum over no children panics
RECURSIVE select_loop(_, _, _)
RECURSIVE select_among(_, _, _)
select_loop(os, mbr, node_id) ==
    IF node_id.kind = "Leaf" THEN node_id
    ELSE select_among(os, mbr, get_node(os, node_id).payload)

select_among(os, mbr, payload) ==
    IF Len(payload) = 0 THEN None
    ELSE select_loop(os, mbr, select_min_by(os, mbr, payload, 2, payload[1]))

select_node(os, mbr) ==
    IF is_empty(os) THEN os.root_id ELSE select_loop(os, mbr, os.root_id)

\* the body of the fold of select_first_pair for one record
first_pair_fold(acc, bounds, index) ==
    [min |-> IF bounds.min < acc.min THEN bounds.min ELSE acc.min,
     max |-> IF bounds.max > acc.max THEN bounds.max ELSE acc.max,
     max_low_idx |-> IF bounds.min > acc.max_low THEN index ELSE acc.max_low_idx,
     max_low |-> IF bounds.min > acc.max_low THEN bounds.min ELSE acc.max_low,
     min_high_idx |-> IF ~(bounds.min > acc.max_low) /\ bounds.max < acc.min_high
                      THEN index ELSE acc.min_high_idx,
     min_high |-> IF ~(bounds.min > acc.max_low) /\ bounds.max < acc.min_high
                  THEN bounds.max ELSE acc.min_high]

\* one axis of select_first_pair: the fold over the records after the first
RECURSIVE first_pair_scan(_, _, _, _, _)
first_pair_scan(os, records, dim, i, acc) ==
    IF i > Len(records) THEN acc
    ELSE first_pair_scan(os, records, dim, i + 1,
            first_pair_fold(acc, get_mbr(os, records[i])[dim], i - 1))

\* the accumulator the first record gives: every field starts from its bounds.min
first_pair_start(bounds) ==
    [min |-> bounds.min, max |-> bounds.min,
     max_low_idx |-> 0, max_low |-> bounds.min,
     min_high_idx |-> 0, min_high |-> bounds.min]

first_pair_axis(os, records, dim) ==
    first_pair_scan(os, records, dim, 2, first_pair_start(get_mbr(os, records[1])[dim]))

first_pair_length(p) == p.max - p.min

\* bounds(dim) of an undefined MBR and the division by a zero length panic
first_pair_panics(os, records, dimension) ==
    \/ \E i \in 1..Len(records) : mbr_dimension(get_mbr(os, records[i])) < dimension
    \/ \E dim \in 1..dimension : first_pair_length(first_pair_axis(os, records, dim)) = 0

first_pair_d(p) == TruncDiv(p.min_high - p.max_low, p.max - p.min)

first_pair_less(best, p) == IF first_pair_d(best) > first_pair_d(p) THEN p ELSE best

\* min_by over the axes: the first axis with the smallest d
RECURSIVE first_pair_min_by(_, _, _, _, _)
first_pair_min_by(os, records, dimension, dim, best) ==
    IF dim > dimension THEN best
    ELSE first_pair_min_by(os, records, dimension, dim + 1,
            first_pair_less(best, first_pair_axis(os, records, dim)))

\* the seeds at the 0-based indices, the larger index removed first
first_pair_take(records, lhs_at, rhs_at, lhs_idx, rhs_idx) ==
    [lhs |-> records[lhs_at + 1], rhs |-> records[rhs_at + 1],
     records |-> swap_remove(swap_remove(records, lhs_idx), rhs_idx)]

first_pair_at(records, max_low_idx, min_high_idx) ==
    IF min_high_idx = max_low_idx
    THEN first_pair_take(records, Len(records) - 1, 0, Len(records) - 1, 0)
    ELSE IF min_high_idx > max_low_idx
    THEN first_pair_take(records, max_low_idx, min_high_idx, min_high_idx, max_low_idx)
    ELSE first_pair_take(records, max_low_idx, min_high_idx, max_low_idx, min_high_idx)

first_pair_of(records, params) ==
    first_pair_at(records, params.max_low_idx, params.min_high_idx)

\* the seeds and the records left to distribute (not called when it panics)
select_first_pair(os, records, dimension) ==
    first_pair_of(records,
        first_pair_min_by(os, records, dimension, 2, first_pair_axis(os, records, 1)))

\* a difference that is always spent: the minimum fill is never owed
saturating_sub_spent(a, b) == 0

saturating_sub(a, b) == IF a > b THEN a - b ELSE 0

\* the record goes to the node rather than to its new sibling
split_prefers_node(mbr, new_mbr, rec_mbr, node_num, new_node_num) ==
    \/ mbr_delta(mbr, rec_mbr) < mbr_delta(new_mbr, rec_mbr)
    \/ /\ mbr_delta(mbr, rec_mbr) = mbr_delta(new_mbr, rec_mbr)
       /\ node_num < new_node_num

\* the distribution loop of split_node
RECURSIVE split_loop(_, _, _, _, _, _)
RECURSIVE split_place(_, _, _, _, _, _, _, _)
split_loop(os, node_id, new_node_id, children, node_num, new_node_num) ==
    IF Len(children) = 0 THEN os
    ELSE IF saturating_sub(os.min_records, node_num) >= Len(children)
    THEN bind_set(os, node_id, children)
    ELSE IF saturating_sub(os.min_records, new_node_num) >= Len(children)
    THEN bind_set(os, new_node_id, children)
    ELSE split_place(os, node_id, new_node_id, SubSeq(children, 1, Len(children) - 1),
            node_num, new_node_num, children[Len(children)],
            split_prefers_node(get_mbr(os, node_id), get_mbr(os, new_node_id),
                               get_mbr(os, children[Len(children)]),
                               node_num, new_node_num))

split_place(os, node_id, new_node_id, rest, node_num, new_node_num, rec_id, to_node) ==
    split_loop(bind(os, IF to_node THEN node_id ELSE new_node_id, rec_id),
               node_id, new_node_id, rest,
               IF to_node THEN node_num + 1 ELSE node_num,
               IF to_node THEN new_node_num ELSE new_node_num + 1)

\* the id of the sibling split_node allocates
split_new_node_id(os, node_id) == next_node_id(os, node_id.kind)

\* the seeds are bound, the sibling is made, the rest is distributed
split_seeded(os0, node_id, new_node_id, pair) ==
    split_loop(bind(make_node(bind(os0, node_id, pair.lhs), node_id.kind),
                    new_node_id, pair.rhs),
               node_id, new_node_id, pair.records, 1, 1)

split_children(os0, node_id, new_node_id, children) ==
    IF first_pair_panics(os0, children, os0.dimension)
    THEN [os0 EXCEPT !.panicked = TRUE]
    ELSE split_seeded(os0, node_id, new_node_id,
                      select_first_pair(os0, children, os0.dimension))

split_node(os, node_id, extra_child_id) ==
    split_children(abort_children(os, node_id), node_id, split_new_node_id(os, node_id),
                   Append(get_node(os, node_id).payload, extra_child_id))

\* the parent takes the pending sibling: bound while there is room, split otherwise
fix_parent(os1, parent_node_id, extra_node_id, full) ==
    [os |-> IF extra_node_id = None THEN os1
            ELSE IF ~full THEN bind(os1, parent_node_id, extra_node_id)
            ELSE split_node(os1, parent_node_id, extra_node_id),
     node_id |-> parent_node_id,
     extra_node_id |-> IF extra_node_id = None \/ ~full THEN None
                       ELSE split_new_node_id(os1, parent_node_id)]

fix_step(os1, parent_node_id, extra_node_id) ==
    fix_parent(os1, parent_node_id, extra_node_id,
               ~(Len(get_node(os1, parent_node_id).payload) < os1.max_records))

\* the while loop of fix_tree; yields the space, the node reached and the pending sibling
RECURSIVE fix_loop(_, _, _)
RECURSIVE fix_next(_)
RECURSIVE fix_up(_, _, _, _)
fix_loop(os, node_id, extra_node_id) ==
    fix_up(os, node_id, extra_node_id, get_node(os, node_id).parent_id)

fix_up(os, node_id, extra_node_id, parent_node_id) ==
    IF parent_node_id.kind = "Root" \/ os.panicked
    THEN [os |-> os, node_id |-> node_id, extra_node_id |-> extra_node_id]
    ELSE fix_next(fix_step(
            set_mbr(os, parent_node_id,
                    common_mbr(get_mbr(os, parent_node_id), get_mbr(os, node_id))),
            parent_node_id, extra_node_id))

fix_next(r) == fix_loop(r.os, r.node_id, r.extra_node_id)

\* a new root over the old root, which takes its sibling as a child
fix_new_root_below(os, new_root_id, node_id, extra_node_id) ==
    [bind(bind(make_node(os, "Internal"), new_root_id, node_id), node_id, extra_node_id)
     EXCEPT !.root_id = new_root_id]

\* a new root over the old root and its sibling that root_id is not moved to
fix_new_root_unset(os, new_root_id, node_id, extra_node_id) ==
    bind(bind(make_node(os, "Internal"), new_root_id, node_id), new_root_id, extra_node_id)

\* the root was split: a new root takes the old root and its sibling
fix_new_root(os, new_root_id, node_id, extra_node_id) ==
    [bind(bind(make_node(os, "Internal"), new_root_id, node_id),
          new_root_id, extra_node_id)
     EXCEPT !.root_id = new_root_id]

fix_root(r) ==
    IF r.extra_node_id = None \/ r.os.panicked THEN r.os
    ELSE fix_new_root(r.os, next_node_id(r.os, "Internal"), r.node_id, r.extra_node_id)

fix_tree(os, node_id, extra_node_id) == fix_root(fix_loop(os, node_id, extra_node_id))

\* the leaf takes the record: bound while there is room, split otherwise
insert_into(os, node_id, insert_node_id, full) ==
    IF node_id = None THEN [os EXCEPT !.panicked = TRUE]
    ELSE fix_tree(IF full THEN split_node(os, node_id, insert_node_id)
                  ELSE bind(os, node_id, insert_node_id),
                  node_id,
                  IF full THEN split_new_node_id(os, node_id) ELSE None)

\* a leaf counted full one child early
insert_at_early(os, node_id, insert_node_id) ==
    insert_into(os, node_id, insert_node_id,
                node_id # None /\ ~(Len(get_node(os, node_id).payload) + 1 < os.max_records))

insert_at(os, node_id, insert_node_id) ==
    insert_into(os, node_id, insert_node_id,
                node_id # None /\ ~(Len(get_node(os, node_id).payload) < os.max_records))

insert_helper(os, insert_node_id) ==
    insert_at(os, select_node(os, get_mbr(os, insert_node_id)), insert_node_id)

\* the id insert_transaction returns
\* an id that takes the lowest parked slot when there is one
new_object_id_reused(os) ==
    IF os.data_nodes.freed = {} THEN Len(os.data_nodes.slots)
    ELSE CHOOSE id \in os.data_nodes.freed : \A other \in os.data_nodes.freed : id <= other

new_object_id(os) == Len(os.data_nodes.slots)

\* LRTree::insert / insert_transaction without hooks; the dimension assertion
\* fails before anything is allocated
insert_transaction(os, object, mbr) ==
    IF mbr_dimension(mbr) # os.dimension THEN [os EXCEPT !.panicked = TRUE]
    ELSE insert_helper(make_data_node(os, object, mbr), Data(new_object_id(os)))

\* a call of InsertHandler::before_insert / after_insert: the space it is handed
\* and the id of the new data node
before_insert(os, new_object_node_id) ==
    [hook |-> "before_insert", space |-> os, id |-> new_object_node_id]

after_insert(os, new_object_node_id) ==
    [hook |-> "after_insert", space |-> os, id |-> new_object_node_id]

\* the calls insert_transaction makes to its helper, `result` being what
\* insert_transaction comes to: none when the dimension assertion fails, and
\* no after_insert when insert_helper panics
insert_transaction_calls(os, object, mbr, result) ==
    IF mbr_dimension(mbr) # os.dimension THEN <<>>
    ELSE <<before_insert(make_data_node(os, object, mbr), new_object_id(os))>>
         \o (IF result.panicked THEN <<>> ELSE <<after_insert(result, new_object_id(os))>>)

----------------------------------------------------------------------------
(* Static builder: src/src/tree/mod.rs.  alpha is given in hundredths; for *)
(* the alphas 0, 0.25, 0.45, 0.5, 0.75, 1 and up to 30 ids the f32 products*)
(* (alpha * n) as usize and ((1.0 - alpha) * n) as usize equal the integer *)
(* quotients below, and the f64 expression powf(..).ceil() equals the      *)
(* least integer computed by ceil_root                                     *)

first_quantile(alpha, ids_num) == (alpha * ids_num) \div 100

second_quantile(alpha, ids_num) == ((100 - alpha) * ids_num) \div 100

\* (data_num as f64).log(max_records as f64).ceil()
RECURSIVE ceil_log_from(_, _, _)
ceil_log_from(n, base, l) == IF Pow(base, l) >= n THEN l ELSE ceil_log_from(n, base, l + 1)

\* f64::log is ln(n) / ln(base).  For n = base^l the quotient of the two rounded
\* logarithms is l or one ulp beside it, and ceil() of a quotient above l is
\* l + 1: ln(125) / ln(5) = 4.8283137373023015 / 1.6094379124341003 =
\* 3.0000000000000004.  Up to n = 1000 and base 8 these are the two such cases.
log_rounds_up == {<<125, 5>>, <<216, 6>>}

ceil_log(n, base) ==
    ceil_log_from(n, base, 0) + (IF <<n, base>> \in log_rounds_up THEN 1 ELSE 0)

\* (ids_num as f64).powf(1.0 / (level + 1) as f64).ceil()
RECURSIVE ceil_root_from(_, _, _)
ceil_root_from(n, e, k) == IF Pow(k, e) >= n THEN k ELSE ceil_root_from(n, e, k + 1)

ceil_root(n, e) == ceil_root_from(n, e, 0)

\* one axis of find_sort_axis_index: the fold over the ids after the first
RECURSIVE sort_axis_scan(_, _, _, _, _)
sort_axis_scan(os, ids, dim, i, acc) ==
    IF i > Len(ids) THEN acc
    ELSE LET bounds == get_mbr(os, ids[i])[dim]
             acc1 == IF bounds.min > acc.max_low THEN [acc EXCEPT !.max_low = bounds.min]
                     ELSE IF bounds.min < acc.min_low THEN [acc EXCEPT !.min_low = bounds.min]
                     ELSE acc
             acc2 == IF bounds.max > acc1.max_high THEN [acc1 EXCEPT !.max_high = bounds.max]
                     ELSE IF bounds.max < acc1.min_high THEN [acc1 EXCEPT !.min_high = bounds.max]
                     ELSE acc1
         IN sort_axis_scan(os, ids, dim, i + 1, acc2)

sort_axis_params(os, ids, dim) ==
    LET bounds == get_mbr(os, ids[1])[dim]
    IN sort_axis_scan(os, ids, dim, 2,
            [max_low |-> bounds.min, max_high |-> bounds.max,
             min_low |-> bounds.min, min_high |-> bounds.max])

\* next().unwrap() on no ids and the division by a zero extent panic
sort_axis_panics(os, ids) ==
    \/ Len(ids) = 0
    \/ \E dim \in 1..os.dimension :
          LET p == sort_axis_params(os, ids, dim) IN p.max_high - p.min_low = 0

sort_axis_key(p) == TruncDiv(p.max_low - p.min_high, p.max_high - p.min_low)

\* Iterator::max_by keeps the last of several equally maximal elements
RECURSIVE sort_axis_max_by(_, _, _, _)
sort_axis_max_by(os, ids, dim, best) ==
    IF dim > os.dimension THEN best
    ELSE sort_axis_max_by(os, ids, dim + 1,
            IF sort_axis_key(sort_axis_params(os, ids, best))
                 > sort_axis_key(sort_axis_params(os, ids, dim))
            THEN best ELSE dim)

\* the axis (1-based here) with the largest dispersion ratio
find_sort_axis_index(os, ids) == sort_axis_max_by(os, ids, 2, 1)

\* twice the sort key (min + max) / 2.0 of the closure sort_value
sort_value2(os, id, axis) == get_mbr(os, id)[axis].min + get_mbr(os, id)[axis].max

\* sort_unstable_by on the midpoint: slices of at most 20 elements are sorted
\* by insertion, which leaves ids with equal keys in their order
RECURSIVE sort_insert(_, _, _, _)
sort_insert(os, axis, sorted, id) ==
    IF Len(sorted) = 0 THEN <<id>>
    ELSE IF sort_value2(os, id, axis) < sort_value2(os, sorted[Len(sorted)], axis)
         THEN Append(sort_insert(os, axis, SubSeq(sorted, 1, Len(sorted) - 1), id),
                     sorted[Len(sorted)])
         ELSE Append(sorted, id)

RECURSIVE sort_by_midpoint(_, _, _, _)
sort_by_midpoint(os, axis, ids, i) ==
    IF i = 0 THEN <<>>
    ELSE sort_insert(os, axis, sort_by_midpoint(os, axis, ids, i - 1), ids[i])

\* mbrs![lo..hi) with 0-based bounds
mbrs_of(os, ids, lo, hi) == [i \in 1..(hi - lo) |-> get_mbr(os, ids[lo + i])]

\* two groups that both take the id before the cut
two_groups_shared(ids, left_part_idx, first_mbr, second_mbr, panicked) ==
    [first |-> SubSeq(ids, 1, left_part_idx), first_mbr |-> first_mbr,
     second |-> SubSeq(ids, IF left_part_idx = 0 THEN 1 ELSE left_part_idx, Len(ids)),
     second_mbr |-> second_mbr,
     panicked |-> panicked]

two_groups(ids, left_part_idx, first_mbr, second_mbr, panicked) ==
    [first |-> SubSeq(ids, 1, left_part_idx), first_mbr |-> first_mbr,
     second |-> SubSeq(ids, left_part_idx + 1, Len(ids)), second_mbr |-> second_mbr,
     panicked |-> panicked]

\* the undecided ids left..=right go to one group, and with them their MBRs
two_groups_moved(s, to_first, mbr) ==
    IF to_first THEN two_groups(s.ids, s.right + 1, mbr, s.second_mbr, FALSE)
    ELSE two_groups(s.ids, s.left, s.first_mbr, mbr, FALSE)

two_groups_rest(os, s, to_first) ==
    two_groups_moved(s, to_first,
        common_mbr_from_iter(Append(mbrs_of(os, s.ids, s.left, s.right + 1),
                                    IF to_first THEN s.first_mbr ELSE s.second_mbr)))

\* the tests at the head of the placement loop, in their order
two_groups_test(first_coeff, second_coeff, min_r, max_r, s) ==
    IF s.right < s.left THEN "done"
    ELSE IF s.first_len < first_coeff * min_r THEN "rest => first_group"
    ELSE IF s.second_len < second_coeff * min_r THEN "rest => second_group"
    ELSE IF s.first_len > first_coeff * max_r THEN "rest => second_group"
    ELSE IF s.second_len > second_coeff * max_r THEN "rest => first_group"
    ELSE "place"

\* the placement loop of split_into_2_groups; s holds its mutable locals
RECURSIVE two_groups_loop(_, _, _, _, _, _)
RECURSIVE two_groups_on(_, _, _, _, _, _, _)
RECURSIVE two_groups_place(_, _, _, _, _, _, _, _)
two_groups_loop(os, first_coeff, second_coeff, min_r, max_r, s) ==
    two_groups_on(os, first_coeff, second_coeff, min_r, max_r, s,
                  two_groups_test(first_coeff, second_coeff, min_r, max_r, s))

two_groups_on(os, first_coeff, second_coeff, min_r, max_r, s, test) ==
    IF test = "done" THEN two_groups(s.ids, s.left, s.first_mbr, s.second_mbr, FALSE)
    ELSE IF test = "place"
    THEN two_groups_place(os, first_coeff, second_coeff, min_r, max_r, s,
            common_mbr(s.first_mbr, get_mbr(os, s.ids[s.left + 1])),
            common_mbr(s.second_mbr, get_mbr(os, s.ids[s.left + 1])))
    ELSE two_groups_rest(os, s, test = "rest => first_group")

two_groups_place(os, first_coeff, second_coeff, min_r, max_r, s, common_first, common_second) ==
    IF volume(common_first) - volume(s.first_mbr)
          >= volume(common_second) - volume(s.second_mbr)
    THEN IF s.right = 0      \* right_part_idx -= 1 underflows
         THEN two_groups(s.ids, s.left, s.first_mbr, s.second_mbr, TRUE)
         ELSE two_groups_loop(os, first_coeff, second_coeff, min_r, max_r,
                 [s EXCEPT !.ids = swap(s.ids, s.left, s.right),
                           !.right = s.right - 1,
                           !.second_len = s.second_len + 1,
                           !.second_mbr = common_second])
    ELSE two_groups_loop(os, first_coeff, second_coeff, min_r, max_r,
             [s EXCEPT !.left = s.left + 1,
                       !.first_len = s.first_len + 1,
                       !.first_mbr = common_first])

\* the locals of split_into_2_groups when the loop is entered
two_groups_start(os, ids, first_len, second_len, left_part_idx, right_part_idx) ==
    [ids |-> ids, left |-> left_part_idx, right |-> right_part_idx,
     first_len |-> first_len, second_len |-> second_len,
     first_mbr |-> common_mbr_from_iter(mbrs_of(os, ids, 0, left_part_idx)),
     second_mbr |-> common_mbr_from_iter(mbrs_of(os, ids, right_part_idx + 1, Len(ids)))]

split_quantiles(os, first_group_coeff, second_group_coeff, level, ids, first_len, second_len) ==
    two_groups_loop(os, first_group_coeff, second_group_coeff,
        Pow(os.min_records, level), Pow(os.max_records, level),
        two_groups_start(os, ids, first_len, second_len,
            first_len, saturating_sub(Len(ids) - second_len, 1)))

split_sorted(os, alpha, first_group_coeff, second_group_coeff, level, ids) ==
    split_quantiles(os, first_group_coeff, second_group_coeff, level, ids,
        first_quantile(alpha, Len(ids)), second_quantile(alpha, Len(ids)))

split_into_2_groups(os, alpha, first_group_coeff, second_group_coeff, level, unbinded_ids) ==
    IF sort_axis_panics(os, unbinded_ids)
    THEN two_groups(unbinded_ids, 0, undefined, undefined, TRUE)
    ELSE split_sorted(os, alpha, first_group_coeff, second_group_coeff, level,
            sort_by_midpoint(os, find_sort_axis_index(os, unbinded_ids),
                             unbinded_ids, Len(unbinded_ids)))

\* the groups (ids, mbr) in order; a panic below is kept as a group flagged panicked
RECURSIVE split_groups(_, _, _, _, _)
RECURSIVE sub_group(_, _, _, _, _, _)
RECURSIVE sub_groups(_, _, _, _, _, _)
split_groups(os, alpha, node_child_num, level, unbinded_ids) ==
    sub_groups(os, alpha, node_child_num \div 2, node_child_num - node_child_num \div 2,
        level,
        split_into_2_groups(os, alpha, node_child_num \div 2,
            node_child_num - node_child_num \div 2, level, unbinded_ids))

sub_groups(os, alpha, first_group_coeff, second_group_coeff, level, g) ==
    IF g.panicked THEN <<[ids |-> <<>>, mbr |-> undefined, panicked |-> TRUE]>>
    ELSE sub_group(os, alpha, first_group_coeff, level, g.first, g.first_mbr)
            \o sub_group(os, alpha, second_group_coeff, level, g.second, g.second_mbr)

sub_group(os, alpha, group_coeff, level, ids, mbr) ==
    IF is_undefined(mbr) THEN <<>>
    ELSE IF group_coeff > 1 THEN split_groups(os, alpha, group_coeff, level, ids)
    ELSE <<[ids |-> ids, mbr |-> mbr, panicked |-> FALSE]>>

RECURSIVE set_parent_infos(_, _, _, _)
set_parent_infos(os, ids, i, parent_id) ==
    IF i > Len(ids) THEN os
    ELSE set_parent_infos(set_parent_info(os, ids[i], parent_id), ids, i + 1, parent_id)

RECURSIVE build_groups(_, _, _, _, _, _, _)
RECURSIVE build_group(_, _, _, _, _, _, _, _)
RECURSIVE build_node(_, _, _, _, _)
build_node(os, alpha, node_id, level, unbinded_ids) ==
    IF level = 0
    THEN set_parent_infos(
            [os EXCEPT !.nodes[node_id.id + 1].payload = @ \o unbinded_ids],
            unbinded_ids, 1, node_id)
    ELSE build_groups(os, alpha, node_id, level, IF level = 1 THEN "Leaf" ELSE "Internal",
            split_groups(os, alpha, ceil_root(Len(unbinded_ids), level + 1),
                         level, unbinded_ids),
            1)

\* the for loop of build_node over the groups
build_groups(os, alpha, node_id, level, kind, groups, i) ==
    IF i > Len(groups) \/ os.panicked THEN os
    ELSE IF groups[i].panicked THEN [os EXCEPT !.panicked = TRUE]
    ELSE build_group(os, alpha, node_id, level, kind, groups, i, next_node_id(os, kind))

build_group(os, alpha, node_id, level, kind, groups, i, new_node_id) ==
    build_groups(
        build_node(
            set_parent_info(
                add_child_raw(make_node_with_mbr(os, kind, groups[i].mbr),
                              node_id, new_node_id),
                new_node_id, node_id),
            alpha, new_node_id, level - 1, groups[i].ids),
        alpha, node_id, level, kind, groups, i + 1)

children_mbrs(os, id) ==
    [i \in 1..Len(get_node(os, id).payload) |-> get_mbr(os, get_node(os, id).payload[i])]

\* the level of the root and its tag
rebuild_level(os) ==
    IF data_num(os) <= os.max_records THEN 1 ELSE ceil_log(data_num(os), os.max_records)

rebuild_kind(os) == IF data_num(os) <= os.max_records THEN "Leaf" ELSE "Internal"

\* the root's MBR is put over its new children
rebuild_root_mbr(os, root_id) ==
    IF os.panicked THEN os
    ELSE set_mbr(os, root_id, common_mbr_from_iter(children_mbrs(os, root_id)))

rebuild_tagged(os, alpha, level) ==
    rebuild_root_mbr(build_node(os, alpha, os.root_id, level - 1, iter_data_ids(os)),
                     os.root_id)

rebuild_cleared(os, alpha) ==
    rebuild_tagged([os EXCEPT !.root_id = set_kind(@, rebuild_kind(os))],
                   alpha, rebuild_level(os))

\* LRTree::rebuild(alpha)
rebuild(os, alpha) ==
    IF is_empty(os) THEN os ELSE rebuild_cleared(clear_tree_structure(os), alpha)

----------------------------------------------------------------------------
(* Inputs *)

Rect(x0, x1, y0, y1) == <<Bounds(x0, x1), Bounds(y0, y1)>>

\* the MBRs given to insert and with_data: two disjoint tiles, a point on the
\* corner of the first, and a bar that overlaps the second
MbrsDyn == {Rect(0, 1, 0, 1), Rect(2, 3, 0, 2), Rect(1, 1, 1, 1)}

\* the MBRs given to insert in the runs with soft deletions
MbrsSoft == {Rect(0, 1, 0, 1), Rect(2, 3, 0, 2)}

Mbrs == MbrsDyn \cup {Rect(0, 3, 2, 3)}

\* the query areas
Areas == Mbrs \cup {Rect(0, 0, 0, 0), Rect(0, 2, 0, 2), Rect(3, 4, 3, 4), Rect(4, 5, 0, 0)}

\* a grid of unit tiles, for the spaces with_data is given at once
Tiles ==
    <<Rect(0, 1, 0, 1), Rect(2, 3, 0, 1), Rect(4, 5, 0, 1), Rect(0, 1, 2, 3),
      Rect(2, 3, 2, 3), Rect(4, 5, 2, 3), Rect(0, 1, 4, 5), Rect(2, 3, 4, 5),
      Rect(4, 5, 4, 5), Rect(0, 1, 6, 7), Rect(2, 3, 6, 7), Rect(4, 5, 6, 7)>>

\* the MBRs a run of all operations inserts, in this order
Arrivals ==
    <<Rect(0, 1, 0, 1), Rect(2, 3, 0, 2), Rect(0, 1, 0, 1), Rect(1, 1, 1, 1),
      Rect(2, 3, 0, 2), Rect(0, 3, 2, 3), Rect(0, 1, 0, 1), Rect(2, 3, 0, 2)>>

\* MBRs of one and of three dimensions, given to a space of two
Misfits == {<<Bounds(0, 1)>>, <<Bounds(0, 1), Bounds(0, 1), Bounds(0, 1)>>}

\* the areas given to retain: the first tile and the whole plane in use
RetainAreas == {Rect(0, 1, 0, 1), Rect(0, 3, 0, 3)}

\* the predicates given to retain, as the ids they keep: none, the even ones
Keeps == {{}, {0, 2, 4, 6}}

\* (dimension, min_records, max_records) given to the constructor
Params == {<<2, 2, 3>>}

\* alpha of a static build, in hundredths
Alphas == {0, 45, 50}

----------------------------------------------------------------------------
(* The facade: LRTree in src/src/tree/mod.rs *)

\* the ids the store holds that are not parked
LiveIdsOf(os) == (0..(Len(os.data_nodes.slots) - 1)) \ os.data_nodes.freed

OpLog(name) == log' = Append(log, name)

Calls(names) == Cardinality({i \in 1..Len(log) : log[i] \in names})

\* the outcome of a writer: a panic under the write lock poisons the lock
Commit(result) ==
    /\ poisoned' = result.panicked
    /\ obj_space' = IF result.panicked THEN obj_space ELSE result

\* LRTree::with_obj_space(ObjSpace::new(..))
NewSpace ==
    /\ \E p \in Params :
          /\ valid_params(p[1], p[2], p[3])
          /\ obj_space = ObjSpace_new(p[1], p[2], p[3])
    /\ poisoned = FALSE
    /\ log = <<>>
    /\ callbacks = <<>>
    /\ threads = <<>>

\* LRTree::with_obj_space(ObjSpace::with_data(..)) over the first n of Tiles, few
\* (up to MaxPreload) or ten and more; the objects are their ordinals
DataSpace ==
    /\ \E p \in Params, n \in (1..MaxPreload) \cup (10..Len(Tiles)) :
          /\ valid_params(p[1], p[2], p[3])
          /\ obj_space = with_data(p[1], p[2], p[3], [i \in 1..n |-> <<i - 1, Tiles[i]>>])
    /\ poisoned = FALSE
    /\ log = <<"with_data">>
    /\ callbacks = <<>>
    /\ threads = <<>>

\* LRTree::insert(object, mbr), whose hooks do nothing; the object is the
\* ordinal of the insert
Insert(mbr, limit) ==
    /\ ~poisoned
    /\ Len(obj_space.data_nodes.slots) < limit
    /\ Commit(insert_transaction(obj_space, new_object_id(obj_space), mbr))
    /\ OpLog("insert")
    /\ callbacks' = <<>>
    /\ UNCHANGED <<store_checked, threads>>

\* LRTree::rebuild(alpha)
Rebuild(alpha) ==
    /\ ~poisoned
    /\ Calls({"rebuild"}) < MaxRebuilds
    /\ Commit(rebuild(obj_space, alpha))
    /\ OpLog("rebuild")
    /\ callbacks' = <<>>
    /\ UNCHANGED <<store_checked, threads>>

\* LRTree::mark_as_removed(data_ids), given live ids
MarkAsRemoved(data_ids) ==
    /\ ~poisoned
    /\ data_ids # {}
    /\ data_ids \subseteq (0..(Len(obj_space.data_nodes.slots) - 1)) \ obj_space.data_nodes.freed
    /\ Commit(mark_as_removed(obj_space, data_ids))
    /\ OpLog("mark_as_removed")
    /\ callbacks' = <<>>
    /\ UNCHANGED <<store_checked, threads>>

InsertDyn == \E mbr \in MbrsDyn : Insert(mbr, MaxDynData)

InitDyn == NewSpace /\ store_checked = FALSE

NextDyn == InsertDyn

\* insert-only runs on a space made by ObjSpace::new
SpecDyn == InitDyn /\ [][NextDyn]_vars

\* an insert-only run goes on to MaxDynData
InsertBuild ==
    \E mbr \in MbrsDyn :
        Insert(mbr, IF \A i \in 1..Len(log) : log[i] = "insert" THEN MaxDynData ELSE MaxData)

\* a run with a rebuild makes at most MaxData inserts
RebuildAny == \E alpha \in Alphas : Calls({"insert"}) <= MaxData /\ Rebuild(alpha)

InitBuild == (NewSpace \/ DataSpace) /\ store_checked = FALSE

NextBuild == InsertBuild \/ RebuildAny

\* inserts and static builds on a space made by ObjSpace::new or with_data
SpecBuild == InitBuild /\ [][NextBuild]_vars

\* the inserts of a run with soft deletions come first
InsertSoft ==
    \E mbr \in MbrsSoft :
        (\A i \in 1..Len(log) : log[i] = "insert") /\ Insert(mbr, MaxData)

MarkAsRemovedAny == \E data_ids \in SUBSET (0..(MaxRemove - 1)) : MarkAsRemoved(data_ids)

InitSoft == NewSpace /\ store_checked \in BOOLEAN

NextSoft == InsertSoft \/ MarkAsRemovedAny \/ RebuildAny

\* inserts, then soft deletions and static builds, on a space made by
\* ObjSpace::new, over both behaviours of the slab store
SpecSoft == InitSoft /\ [][NextSoft]_vars

\* LRTree::insert_transaction(object, mbr, helper) with a helper that records
\* what it is handed
InsertTransaction(mbr, limit) ==
    /\ ~poisoned
    /\ Len(obj_space.data_nodes.slots) < limit
    /\ Commit(insert_transaction(obj_space, new_object_id(obj_space), mbr))
    /\ callbacks' = insert_transaction_calls(obj_space, new_object_id(obj_space), mbr,
                                             IF poisoned' THEN [panicked |-> TRUE] ELSE obj_space')
    /\ OpLog("insert")
    /\ UNCHANGED <<store_checked, threads>>

\* LRTree::retain(area, predicate)
Retain(area, keep) ==
    /\ ~poisoned
    /\ Commit(retain(obj_space, area, keep))
    /\ callbacks' = IF poisoned' THEN <<>> ELSE retain_calls(obj_space, area, keep)
    /\ OpLog("retain")
    /\ UNCHANGED <<store_checked, threads>>

\* LRTree::restore_removed()
RestoreRemoved ==
    /\ ~poisoned
    /\ Commit(restore_removed(obj_space))
    /\ callbacks' = <<>>
    /\ OpLog("restore_removed")
    /\ UNCHANGED <<store_checked, threads>>

\* LRTree::with_obj_space(tree.lock_obj_space().clone_shrinked()): the tree is
\* replaced by one around the compacted copy
CloneShrinked ==
    /\ ~poisoned
    /\ Commit(clone_shrinked(obj_space))
    /\ callbacks' = <<>>
    /\ OpLog("clone_shrinked")
    /\ UNCHANGED <<store_checked, threads>>

\* the number of operations of the run that follow its leading inserts
OpsUsed ==
    Len(log) - (CHOOSE n \in 0..Len(log) :
                    /\ \A i \in 1..n : log[i] = "insert"
                    /\ n = Len(log) \/ log[n + 1] # "insert")

\* the next of Arrivals is inserted: freely while the run has made inserts
\* only, and as one of MaxOps operations afterwards
InsertNext ==
    /\ (\A i \in 1..Len(log) : log[i] = "insert") \/ OpsUsed < MaxOps
    /\ InsertTransaction(Arrivals[(Calls({"insert"}) % Len(Arrivals)) + 1], MaxData)

\* an insert of an MBR of another dimension
InsertMisfit == \E mbr \in Misfits : OpsUsed < MaxOps /\ InsertTransaction(mbr, MaxData + 1)

RetainAny == \E area \in RetainAreas, keep \in Keeps : OpsUsed < MaxOps /\ Retain(area, keep)

MarkAsRemovedLive ==
    \E data_ids \in SUBSET (0..(MaxRemove - 1)) : OpsUsed < MaxOps /\ MarkAsRemoved(data_ids)

RestoreRemovedOp == OpsUsed < MaxOps /\ RestoreRemoved

CloneShrinkedOp == OpsUsed < MaxOps /\ CloneShrinked

RebuildOp == OpsUsed < MaxOps /\ Rebuild(50)

InitFacade == NewSpace /\ store_checked \in BOOLEAN

NextFacade ==
    \/ InsertNext \/ InsertMisfit \/ RetainAny \/ MarkAsRemovedLive
    \/ RestoreRemovedOp \/ CloneShrinkedOp \/ RebuildOp

\* inserts of a fixed sequence of MBRs and then a few operations of any kind, on
\* a space made by ObjSpace::new, over both behaviours of the slab store
SpecFacade == InitFacade /\ [][NextFacade]_vars

----------------------------------------------------------------------------
(* Concurrent runs: the facade operations as threads take and drop the      *)
(* guards of the RwLock.  threads.guards counts the read guards a thread     *)
(* holds, threads.writer is the thread that holds the write guard,          *)
(* threads.waiting the threads blocked in write(), threads.stack the calls   *)
(* of visit_helper in progress, threads.pending the write in progress.       *)
(* std leaves open whether a waiting writer blocks new readers:              *)
(* threads.writer_first is the policy of the run                             *)

Threads == {"visitor", "reader", "writer"}

NoThread == "none"

\* RwLock::read() returns: no writer holds the lock, and none waits for it
\* where waiting writers go first
can_read == threads.writer = NoThread /\ (threads.writer_first => threads.waiting = {})

\* RwLock::write() returns: nobody holds the lock
can_write == threads.writer = NoThread /\ \A t \in Threads : threads.guards[t] = 0

At(t, position) == ~poisoned /\ threads.pc[t] = position

\* thread t moves on to `position` holding `held` read guards more than before
Goes(t, position, held) ==
    [threads EXCEPT !.pc[t] = position, !.guards[t] = @ + held]

Started(writer_first) ==
    [pc |-> [t \in Threads |-> "idle"], guards |-> [t \in Threads |-> 0],
     writer |-> NoThread, waiting |-> {}, writer_first |-> writer_first,
     stack |-> <<>>, pending |-> <<>>]

\* LRTree::search: the read guard is taken ...
SearchLock ==
    /\ At("reader", "idle") /\ can_read
    /\ threads' = Goes("reader", "search", 1)
    /\ UNCHANGED <<obj_space, poisoned, store_checked, log, callbacks>>

\* ... the tree is walked, and the guard is dropped
SearchReturn ==
    /\ At("reader", "search")
    /\ threads' = Goes("reader", "idle", -1)
    /\ UNCHANGED <<obj_space, poisoned, store_checked, log, callbacks>>

\* a writer calls insert or mark_as_removed and blocks in write()
WriteCall(op) ==
    /\ At("writer", "idle")
    /\ Len(log) < MaxOps
    /\ threads' = [Goes("writer", "write", 0) EXCEPT !.waiting = @ \cup {"writer"}, !.pending = op]
    /\ UNCHANGED <<obj_space, poisoned, store_checked, log, callbacks>>

WriteCallAny ==
    \/ WriteCall(<<"insert", Arrivals[(Len(obj_space.data_nodes.slots) % Len(Arrivals)) + 1]>>)
    \/ \E data_ids \in SUBSET LiveIdsOf(obj_space) \ {{}} : WriteCall(<<"mark_as_removed", data_ids>>)

\* write() returns; insert_transaction goes on to allocate the data node
WriteLock ==
    /\ At("writer", "write") /\ can_write
    /\ threads' = [Goes("writer", threads.pending[1], 0) EXCEPT !.waiting = @ \ {"writer"}, !.writer = "writer"]
    /\ obj_space' = IF threads.pending[1] = "insert"
                    THEN make_data_node(obj_space, new_object_id(obj_space), threads.pending[2])
                    ELSE obj_space
    /\ UNCHANGED <<poisoned, store_checked, log, callbacks>>

\* insert_helper runs and the write guard is dropped
InsertReturn ==
    /\ At("writer", "insert")
    /\ Commit(insert_helper(obj_space, Data(Len(obj_space.data_nodes.slots) - 1)))
    /\ threads' = [Goes("writer", "idle", 0) EXCEPT !.writer = NoThread, !.pending = <<>>]
    /\ OpLog("insert")
    /\ UNCHANGED <<store_checked, callbacks>>

\* LRTree::mark_as_removed under the write guard
MarkAsRemovedReturn ==
    /\ At("writer", "mark_as_removed")
    /\ Commit(mark_as_removed(obj_space, threads.pending[2]))
    /\ threads' = [Goes("writer", "idle", 0) EXCEPT !.writer = NoThread, !.pending = <<>>]
    /\ OpLog("mark_as_removed")
    /\ UNCHANGED <<store_checked, callbacks>>

\* LRTree::visit takes a read guard for is_empty ...
VisitLockIsEmpty ==
    /\ At("visitor", "idle") /\ can_read
    /\ threads' = Goes("visitor", "is_empty", 1)
    /\ UNCHANGED <<obj_space, poisoned, store_checked, log, callbacks>>

\* ... and drops it at the end of the condition: visit returns on an empty space
VisitIsEmpty ==
    /\ At("visitor", "is_empty")
    /\ threads' = Goes("visitor", IF is_empty(obj_space) THEN "idle" ELSE "visit", -1)
    /\ UNCHANGED <<obj_space, poisoned, store_checked, log, callbacks>>

\* visit takes a second guard to read root_id and holds it while visit_helper runs
VisitLockRoot ==
    /\ At("visitor", "visit") /\ can_read
    /\ threads' = [Goes("visitor", "visit_helper", 1) EXCEPT
                       !.stack = <<[id |-> obj_space.root_id, next |-> 0, guarded |-> FALSE]>>]
    /\ UNCHANGED <<obj_space, poisoned, store_checked, log, callbacks>>

top == threads.stack[Len(threads.stack)]

\* visit_helper on a node takes a read guard of its own and calls enter_node
VisitEnterNode ==
    /\ At("visitor", "visit_helper") /\ ~top.guarded /\ can_read
    /\ threads' = [Goes("visitor", "visit_helper", 1) EXCEPT !.stack[Len(threads.stack)].guarded = TRUE]
    /\ UNCHANGED <<obj_space, poisoned, store_checked, log, callbacks>>

\* visit_helper goes to the next child: a data child is visited under a guard
\* taken and dropped on the spot, a node child is a call of visit_helper
VisitChild ==
    /\ At("visitor", "visit_helper") /\ top.guarded
    /\ top.next < Len(get_node(obj_space, top.id).payload)
    /\ LET child_id == get_node(obj_space, top.id).payload[top.next + 1]
           stepped == [threads EXCEPT !.stack[Len(threads.stack)].next = @ + 1]
       IN IF child_id.kind = "Data"
          THEN can_read /\ threads' = stepped
          ELSE threads' = [stepped EXCEPT !.stack = Append(@, [id |-> child_id, next |-> 0, guarded |-> FALSE])]
    /\ UNCHANGED <<obj_space, poisoned, store_checked, log, callbacks>>

\* leave_node: visit_helper returns and drops its guard; when the outermost
\* call returns visit drops the guard it read root_id under
VisitLeaveNode ==
    /\ At("visitor", "visit_helper") /\ top.guarded
    /\ top.next = Len(get_node(obj_space, top.id).payload)
    /\ threads' = [(IF Len(threads.stack) = 1 THEN Goes("visitor", "idle", -2)
                                              ELSE Goes("visitor", "visit_helper", -1))
                       EXCEPT !.stack = SubSeq(threads.stack, 1, Len(threads.stack) - 1)]
    /\ UNCHANGED <<obj_space, poisoned, store_checked, log, callbacks>>

InitLock ==
    /\ \E p \in Params :
          /\ valid_params(p[1], p[2], p[3])
          /\ obj_space = ObjSpace_new(p[1], p[2], p[3])
    /\ poisoned = FALSE /\ store_checked = FALSE
    /\ log = <<>> /\ callbacks = <<>>
    /\ \E writer_first \in BOOLEAN : threads = Started(writer_first)

NextLock ==
    \/ SearchLock \/ SearchReturn
    \/ WriteCallAny \/ WriteLock \/ InsertReturn \/ MarkAsRemovedReturn
    \/ VisitLockIsEmpty \/ VisitIsEmpty \/ VisitLockRoot
    \/ VisitEnterNode \/ VisitChild \/ VisitLeaveNode

\* a searching thread, a visiting thread and a writing thread on one tree
SpecLock == InitLock /\ [][NextLock]_vars

----------------------------------------------------------------------------
(* Properties *)

\* closed-interval overlap on every axis, stated without the code's intersects
Overlap(a, b) ==
    \A i \in 1..Len(a) :
        (IF a[i].min > b[i].min THEN a[i].min ELSE b[i].min)
            <= (IF a[i].max < b[i].max THEN a[i].max ELSE b[i].max)

\* the smallest box around a set of defined MBRs, stated without the code's common_mbr
Hull(ms) ==
    IF ms = {} THEN <<>>
    ELSE [i \in 1..obj_space.dimension |->
            [min |-> CHOOSE v \in {m[i].min : m \in ms} : \A m \in ms : v <= m[i].min,
             max |-> CHOOSE v \in {m[i].max : m \in ms} : \A m \in ms : v >= m[i].max]]

AllIds(os) == 0..(Len(os.data_nodes.slots) - 1)

LiveIds(os) == AllIds(os) \ os.data_nodes.freed

OnlyInserts == \A i \in 1..Len(log) : log[i] = "insert"

LastCall == IF Len(log) = 0 THEN "new" ELSE log[Len(log)]

ChildSet(os, id) == SeqToSet(get_node(os, id).payload)

\* the ids of the nodes reachable from `id`, itself included
RECURSIVE Subtree(_, _)
Subtree(os, id) ==
    {id} \cup UNION {Subtree(os, c) : c \in {k \in ChildSet(os, id) : k.kind # "Data"}}

TreeNodes(os) == Subtree(os, os.root_id)

\* the data ids bound under `id`
DataUnder(os, id) ==
    {c.id : c \in {k \in UNION {ChildSet(os, n) : n \in Subtree(os, id)} : k.kind = "Data"}}

\* what a search of `area` has to return: the ids in `ids` whose MBR overlaps it
Expected(os, ids, area) == {id \in ids : Overlap(get_data(os, id).mbr, area)}

\* search(area) returns exactly the ids in `ids` that overlap, each once
Finds(os, ids, area) ==
    LET found == search(os, area)
    IN /\ ~search_panics(os, area)
       /\ SeqToSet(found) = Expected(os, ids, area)
       /\ Len(found) = Cardinality(SeqToSet(found))

\* the number of node levels on the leftmost path below `id`, `id` included
RECURSIVE Depth(_, _)
Depth(os, id) ==
    IF id.kind = "Leaf" \/ Len(get_node(os, id).payload) = 0 THEN 1
    ELSE 1 + Depth(os, get_node(os, id).payload[1])

Height(os) == Depth(os, os.root_id)

----------------------------------------------------------------------------
(* Search *)

\* C1: after any sequence of inserts on a space from ObjSpace::new, search(area)
\* returns exactly the inserted ids whose MBR overlaps the area, each once
SearchComplete ==
    (~poisoned /\ OnlyInserts) =>
        \A area \in Areas : Finds(obj_space, AllIds(obj_space), area)

\* a tree of three levels in which a search finds some of the data and not all
SearchCompleteWitness ==
    /\ ~poisoned /\ OnlyInserts
    /\ Height(obj_space) = 3
    /\ \E area \in Areas :
          LET hits == Expected(obj_space, AllIds(obj_space), area)
          IN hits # {} /\ hits # AllIds(obj_space) /\ Finds(obj_space, AllIds(obj_space), area)

\* C2: in every state reached by insert, mark_as_removed and rebuild, every id
\* search(area) returns is live and its MBR overlaps the area
SearchSound ==
    ~poisoned =>
        \A area \in Areas :
            \A id \in SeqToSet(search(obj_space, area)) :
                /\ id \in LiveIds(obj_space)
                /\ Overlap(get_data(obj_space, id).mbr, area)

\* C3: a tree made by with_obj_space over a space that holds data and no tree
\* structure answers a search with the overlapping data at once
WrapBuilds ==
    (~poisoned /\ LastCall = "with_data") =>
        \A area \in Areas : Finds(obj_space, LiveIds(obj_space), area)

\* the stored objects and MBRs and the freed set are the same in both spaces
SameData(os, os2) ==
    /\ Len(os2.data_nodes.slots) = Len(os.data_nodes.slots)
    /\ os2.data_nodes.freed = os.data_nodes.freed
    /\ \A id \in AllIds(os) :
          /\ get_data(os2, id).mbr = get_data(os, id).mbr
          /\ get_data(os2, id).payload = get_data(os, id).payload

RebuildStep == log' = Append(log, "rebuild") /\ ~poisoned'

\* C4: a rebuild that completes changes no stored object or MBR, and for every
\* area the search after it returns the ids the search before it returned,
\* less the soft-deleted ones
RebuildEquivalence ==
    [][RebuildStep =>
          /\ SameData(obj_space, obj_space')
          /\ \A area \in Areas :
                ~search_panics(obj_space, area) =>
                    /\ ~search_panics(obj_space', area)
                    /\ SeqToSet(search(obj_space', area)) =
                          SeqToSet(search(obj_space, area)) \ obj_space.data_nodes.freed
                    /\ Len(search(obj_space', area)) =
                          Cardinality(SeqToSet(search(obj_space', area)))]_vars

\* a static build of two levels over a space with a soft-deleted object that
\* the search before the build still returned
RebuildEquivalenceWitness ==
    /\ ~poisoned /\ LastCall = "rebuild"
    /\ obj_space.data_nodes.freed # {}
    /\ Height(obj_space) = 2
    /\ DataUnder(obj_space, obj_space.root_id) = LiveIds(obj_space)
    /\ \E area \in Areas : Expected(obj_space, LiveIds(obj_space), area) # {}

\* C5: after a rebuild and any number of inserts after it, search(area) returns
\* exactly the stored ids whose MBR overlaps the area, each once
HybridComplete ==
    (~poisoned /\ Calls({"rebuild"}) > 0) =>
        \A area \in Areas : Finds(obj_space, AllIds(obj_space), area)

\* an insert into a statically built tree of two levels
HybridCompleteWitness ==
    /\ ~poisoned /\ Len(log) >= 2
    /\ log[Len(log)] = "insert" /\ log[Len(log) - 1] = "rebuild"
    /\ Len(obj_space.data_nodes.slots) > obj_space.max_records + 1
    /\ Height(obj_space) = 2
    /\ \E area \in Areas : Expected(obj_space, AllIds(obj_space), area) # {}

----------------------------------------------------------------------------
(* Structure *)

NodeMbrExact(os, n) ==
    get_node(os, n).mbr = Hull({get_mbr(os, c) : c \in ChildSet(os, n)})

\* C6: after inserts and rebuilds the MBR of every reachable node is the common
\* MBR of its children's MBRs, undefined when it has none, and the root's MBR is
\* the common MBR of all the data bound in the tree
Coverage ==
    ~poisoned =>
        /\ \A n \in TreeNodes(obj_space) : NodeMbrExact(obj_space, n)
        /\ get_root_mbr(obj_space) =
              Hull({get_data(obj_space, id).mbr : id \in DataUnder(obj_space, obj_space.root_id)})

\* a static tree of three levels whose nodes differ in their MBRs
CoverageWitness ==
    /\ ~poisoned /\ LastCall = "rebuild"
    /\ Height(obj_space) = 3
    /\ \E n \in TreeNodes(obj_space) : get_node(obj_space, n).mbr # get_root_mbr(obj_space)

InFanout(os, n) ==
    /\ Len(get_node(os, n).payload) >= os.min_records
    /\ Len(get_node(os, n).payload) <= os.max_records

\* C7: after inserts alone every reachable node but the root holds between
\* min_records and max_records children, and a root that is not a leaf holds
\* at least two
Fanout ==
    (~poisoned /\ OnlyInserts) =>
        /\ \A n \in TreeNodes(obj_space) \ {obj_space.root_id} : InFanout(obj_space, n)
        /\ obj_space.root_id.kind # "Leaf" =>
              Len(get_node(obj_space, obj_space.root_id).payload) >= 2

\* a tree of three levels: a leaf and then an Internal node were split, and an
\* Internal node below the root holds the minimum
FanoutWitness ==
    /\ ~poisoned /\ OnlyInserts
    /\ Height(obj_space) = 3
    /\ \E n \in TreeNodes(obj_space) \ {obj_space.root_id} :
          /\ n.kind = "Internal"
          /\ Len(get_node(obj_space, n).payload) = obj_space.min_records

\* C8: right after a rebuild of a space with more than max_records live data,
\* every leaf holds between min_records and max_records data ids and every
\* other node but the root between min_records and max_records children
StaticFanout ==
    (~poisoned /\ LastCall = "rebuild" /\ data_num(obj_space) > obj_space.max_records) =>
        \A n \in TreeNodes(obj_space) \ {obj_space.root_id} : InFanout(obj_space, n)

ParentOf(os, c) ==
    IF c.kind = "Data" THEN get_data(os, c.id).parent_id ELSE get_node(os, c).parent_id

\* C9: every child of a reachable node names that node, tag and index, as its
\* parent, and the root is the only reachable node whose parent is Root
ParentLinkage ==
    ~poisoned =>
        /\ \A n \in TreeNodes(obj_space) :
              \A c \in ChildSet(obj_space, n) : ParentOf(obj_space, c) = n
        /\ \A n \in TreeNodes(obj_space) :
              (get_node(obj_space, n).parent_id = Root) <=> (n = obj_space.root_id)

\* a tree of three levels grown by inserts: the root was replaced twice
ParentLinkageWitness ==
    /\ ~poisoned /\ LastCall = "insert"
    /\ Height(obj_space) = 3
    /\ obj_space.root_id # Internal(0)
    /\ \E n \in TreeNodes(obj_space) : get_node(obj_space, n).parent_id = obj_space.root_id

AllOfKind(os, n, kind) == \A c \in ChildSet(os, n) : c.kind = kind

\* C10: the children of a Leaf node are all data, the children of an Internal
\* node are all Internal or all Leaf, and root_id is tagged Leaf exactly when
\* the root's children are data
Homogeneity ==
    ~poisoned =>
        /\ \A n \in TreeNodes(obj_space) :
              /\ n.kind \in {"Leaf", "Internal"}
              /\ n.kind = "Leaf" => AllOfKind(obj_space, n, "Data")
              /\ n.kind = "Internal" =>
                    AllOfKind(obj_space, n, "Internal") \/ AllOfKind(obj_space, n, "Leaf")
        /\ (obj_space.root_id.kind = "Leaf") <=>
              AllOfKind(obj_space, obj_space.root_id, "Data")

\* a statically built tree whose root holds Leaf nodes
HomogeneityWitness ==
    /\ ~poisoned /\ LastCall = "rebuild"
    /\ obj_space.root_id.kind = "Internal"
    /\ ChildSet(obj_space, obj_space.root_id) # {}
    /\ AllOfKind(obj_space, obj_space.root_id, "Leaf")

----------------------------------------------------------------------------
(* Faults *)

\* C11: every insert of an MBR of the space's dimension with min <= max on every
\* axis completes: in a run of such inserts the lock is never poisoned
InsertCompletes == OnlyInserts => ~poisoned

\* C12: an insert of an MBR of another dimension leaves the tree unchanged and
\* usable: the lock is not poisoned, and data_num and every search are as before
DimensionFault ==
    [][\A mbr \in Misfits :
          InsertTransaction(mbr, MaxData + 1) =>
              /\ ~poisoned'
              /\ data_num(obj_space') = data_num(obj_space)
              /\ \A area \in Areas : search(obj_space', area) = search(obj_space, area)]_vars

----------------------------------------------------------------------------
(* Hooks *)

InsertStep == log' = Append(log, "insert") /\ ~poisoned'

\* what the two hooks of an insert_transaction step are handed
HooksSeen ==
    /\ Len(callbacks') = 2
    /\ callbacks'[1].hook = "before_insert" /\ callbacks'[2].hook = "after_insert"
    /\ callbacks'[1].id = Len(obj_space.data_nodes.slots)
    /\ callbacks'[2].id = callbacks'[1].id
    /\ LET seen == callbacks'[1].space
           id == callbacks'[1].id
       IN /\ AllIds(seen) = AllIds(obj_space) \cup {id}
          /\ get_data(seen, id).payload = id
          /\ get_data(seen, id).mbr = get_data(obj_space', id).mbr
          /\ id \notin DataUnder(seen, seen.root_id)
          /\ seen.nodes = obj_space.nodes /\ seen.root_id = obj_space.root_id
          /\ \A area \in Areas : search(seen, area) = search(obj_space, area)
    /\ LET seen == callbacks'[2].space
           id == callbacks'[2].id
       IN /\ seen = obj_space'
          /\ \A area \in Areas :
                Overlap(get_data(seen, id).mbr, area) => id \in SeqToSet(search(seen, area))
    /\ Coverage' /\ ParentLinkage' /\ Homogeneity' /\ Fanout'

\* C15: an insert_transaction that completes calls before_insert once, on a
\* space in which the new id resolves to its object and MBR, is bound to no
\* leaf and every search returns what it returned before the insert; and then
\* after_insert once, on the space the insert leaves behind, in which every
\* search of an area that overlaps the MBR returns the id and the tree
\* invariants hold
HooksObserve == [][InsertStep => HooksSeen]_vars

\* the same for the inserts into a space that holds live data
HooksObserveInhabited == [][(InsertStep /\ ~is_empty(obj_space)) => HooksSeen]_vars

----------------------------------------------------------------------------
(* Soft deletion *)

\* the live (object, MBR) pairs of a space, with the number of times each occurs
LiveData(os) ==
    LET pair(id) == <<get_data(os, id).payload, get_data(os, id).mbr>>
    IN [p \in {pair(id) : id \in LiveIds(os)} |->
           Cardinality({id \in LiveIds(os) : pair(id) = p})]

\* nothing of the tree structure differs between two spaces: nodes, their child
\* lists and MBRs, the data slots with their MBRs and parent ids, the root id
SameStructure(before, after) ==
    /\ after.nodes = before.nodes
    /\ after.root_id = before.root_id
    /\ after.data_nodes.slots = before.data_nodes.slots

CloneStep == log' = Append(log, "clone_shrinked") /\ ~poisoned'

\* C16: clone_shrinked gives a space of the same dimension, min_records and
\* max_records whose live data are the live data of the source, with nothing
\* parked, whose tree is one empty Leaf root, and which is unordered exactly
\* when live data remain
CloneCompacts ==
    [][CloneStep =>
          /\ obj_space'.dimension = obj_space.dimension
          /\ obj_space'.min_records = obj_space.min_records
          /\ obj_space'.max_records = obj_space.max_records
          /\ LiveData(obj_space') = LiveData(obj_space)
          /\ obj_space'.data_nodes.freed = {}
          /\ Len(obj_space'.data_nodes.slots) = data_num(obj_space)
          /\ obj_space'.root_id = Leaf(0)
          /\ Len(obj_space'.nodes) = 1
          /\ obj_space'.nodes[1].payload = <<>>
          /\ is_unordered(obj_space') <=> (LiveIds(obj_space) # {})]_vars

\* a compacted copy of a space of two levels with a parked id: the copy holds
\* fewer slots than the run inserted, and is unordered
CloneCompactsWitness ==
    /\ ~poisoned /\ LastCall = "clone_shrinked"
    /\ Len(obj_space.data_nodes.slots) < Calls({"insert"})
    /\ Len(obj_space.data_nodes.slots) > obj_space.max_records
    /\ is_unordered(obj_space)

\* C17: a retain that completes parks exactly the live ids that search(area)
\* returns and the predicate rejects, calls the predicate once for each id
\* found, and changes no node, child list, MBR, parent id or root id
RetainExact ==
    [][\A area \in RetainAreas, keep \in Keeps :
          (Retain(area, keep) /\ ~poisoned') =>
              /\ LiveIds(obj_space') =
                    LiveIds(obj_space) \ {id \in SeqToSet(search(obj_space, area)) : id \notin keep}
              /\ [i \in 1..Len(callbacks') |-> callbacks'[i].id] = search(obj_space, area)
              /\ Len(callbacks') = Cardinality(SeqToSet(search(obj_space, area)))
              /\ SameStructure(obj_space, obj_space')]_vars

\* a retain on a tree of two levels whose predicate kept one id found and
\* rejected another, with live data outside the area
RetainExactWitness ==
    /\ ~poisoned /\ LastCall = "retain"
    /\ Height(obj_space) = 2
    /\ \E i, j \in 1..Len(callbacks) : callbacks[i].kept /\ ~callbacks[j].kept
    /\ LiveIds(obj_space) \ {callbacks[i].id : i \in 1..Len(callbacks)} # {}

\* C18: mark_as_removed of live ids lowers data_num by their number, iter no
\* longer yields them, and no node, child list, MBR, parent id or root id changes
RemovalFrame ==
    [][\A data_ids \in SUBSET (0..(MaxRemove - 1)) :
          (MarkAsRemoved(data_ids) /\ ~poisoned') =>
              /\ data_num(obj_space') = data_num(obj_space) - Cardinality(data_ids)
              /\ SeqToSet(iter_data_ids(obj_space')) =
                    SeqToSet(iter_data_ids(obj_space)) \ {Data(id) : id \in data_ids}
              /\ SameStructure(obj_space, obj_space')]_vars

\* a removal on a tree of two levels: the parked id is still bound to its leaf
RemovalFrameWitness ==
    /\ ~poisoned /\ LastCall = "mark_as_removed"
    /\ Height(obj_space) = 2
    /\ obj_space.data_nodes.freed # {}
    /\ obj_space.data_nodes.freed \subseteq DataUnder(obj_space, obj_space.root_id)

\* what restore_removed has to give back: the live ids, data_num and every search
Restored(before, back) ==
    /\ LiveIds(back) = LiveIds(before)
    /\ data_num(back) = data_num(before)
    /\ \A area \in Areas :
          /\ search(back, area) = search(before, area)
          /\ search_panics(back, area) = search_panics(before, area)

----------------------------------------------------------------------------
(* Identity of the data *)

\* C20: the id an insert returns is none of the ids of the tree so far, parked
\* ones included, and resolves to the object and MBR given; an insert or a
\* rebuild changes the object and MBR of no id
IdsStable ==
    [][(~poisoned' /\ log' # log /\ log'[Len(log')] \in {"insert", "rebuild"}) =>
          /\ \A id \in AllIds(obj_space) :
                /\ id \in AllIds(obj_space')
                /\ get_data(obj_space', id).payload = get_data(obj_space, id).payload
                /\ get_data(obj_space', id).mbr = get_data(obj_space, id).mbr
          /\ InsertStep =>
                LET id == callbacks'[1].id
                IN /\ id \notin AllIds(obj_space)
                   /\ id \in AllIds(obj_space')
                   /\ get_data(obj_space', id).payload = Len(obj_space.data_nodes.slots)
                   /\ get_data(obj_space', id).mbr =
                         Arrivals[(Calls({"insert"}) % Len(Arrivals)) + 1]]_vars

\* an insert into a rebuilt tree that holds a parked id
IdsStableWitness ==
    /\ ~poisoned /\ LastCall = "insert"
    /\ obj_space.data_nodes.freed # {}
    /\ Calls({"rebuild"}) > 0
    /\ Len(callbacks) = 2
    /\ callbacks[1].id \in DataUnder(obj_space, obj_space.root_id)

----------------------------------------------------------------------------
(* Concurrency *)

\* while a thread holds a read guard no write is under way
ReadersExcludeWriter ==
    (\E t \in Threads : threads.guards[t] > 0) => threads.writer = NoThread

\* C13: every reader observes the state after a prefix of the writes: a visit
\* walks a space for which is_empty is false, as the visit of any one state does
VisitAtomic ==
    (threads # <<>> /\ threads.pc["visitor"] = "visit_helper") => ~is_empty(obj_space)

\* C14: an operation takes the lock once: no thread holds two guards
LockOnce ==
    threads # <<>> => \A t \in Threads : threads.guards[t] <= 1

\* the visitor holds a guard and is blocked in read() behind the writer, which
\* is blocked in write() behind the visitor
VisitStuck ==
    /\ threads.pc["visitor"] = "visit_helper"
    /\ threads.guards["visitor"] > 0
    /\ threads.waiting = {"writer"}
    /\ threads.writer_first
    /\ threads.guards["reader"] = 0

----------------------------------------------------------------------------
(* Insert order: one collection of (payload, MBR) pairs, inserted in every  *)
(* order into a space made by ObjSpace::new                                 *)

MaxPairs == 5

\* the collection: the payload of a pair is its place in the sequence
PairMbrs ==
    <<Rect(0, 1, 0, 1), Rect(2, 3, 0, 2), Rect(1, 1, 1, 1), Rect(0, 3, 2, 3),
      Rect(1, 2, 0, 1), Rect(3, 3, 0, 3), Rect(0, 0, 2, 3), Rect(2, 2, 2, 2)>>

Pairs == 1..Min2(MaxPairs, Len(PairMbrs))

\* the payloads stored in the space
Payloads(os) == {get_data(os, id).payload : id \in AllIds(os)}

\* LRTree::insert(object, mbr) of a pair that is not in the tree yet
InsertPair ==
    \E object \in Pairs \ Payloads(obj_space) :
        /\ ~poisoned
        /\ Commit(insert_transaction(obj_space, object, PairMbrs[object]))
        /\ OpLog("insert")
        /\ callbacks' = <<>>
        /\ UNCHANGED <<store_checked, threads>>

InitOrders == NewSpace /\ store_checked = FALSE

NextOrders == InsertPair

SpecOrders == InitOrders /\ [][NextOrders]_vars

\* the inserts of the pairs `objects`, one after the other from the lowest payload
RECURSIVE insert_all(_, _)
insert_all(os, objects) ==
    IF objects = {} \/ os.panicked THEN os
    ELSE LET object == CHOOSE o \in objects : \A other \in objects : o <= other
         IN insert_all(insert_transaction(os, object, PairMbrs[object]), objects \ {object})

\* the tree the inserts of the stored pairs build in the order of their payloads
InPayloadOrder ==
    insert_all(ObjSpace_new(obj_space.dimension, obj_space.min_records,
                            obj_space.max_records), Payloads(obj_space))

\* the payloads a search of `area` returns
Found(os, area) == {get_data(os, id).payload : id \in SeqToSet(search(os, area))}

\* C21: the trees that two orders of inserting one collection of (payload, MBR)
\* pairs build return the same payloads for every area: the tree of any order
\* returns what the tree of the payload order returns
OrderIndependent ==
    (~poisoned /\ ~InPayloadOrder.panicked) =>
        \A area \in Areas :
            /\ ~search_panics(obj_space, area)
            /\ ~search_panics(InPayloadOrder, area)
            /\ Found(obj_space, area) = Found(InPayloadOrder, area)

\* all the pairs are in a tree of two levels whose nodes are not those of the
\* tree the payload order builds
OrderIndependentWitness ==
    /\ ~poisoned /\ ~InPayloadOrder.panicked
    /\ Payloads(obj_space) = Pairs
    /\ Height(obj_space) >= 2
    /\ obj_space.nodes # InPayloadOrder.nodes
    /\ \E area \in Areas : Found(obj_space, area) \notin {{}, Pairs}

----------------------------------------------------------------------------
(* Choice of the subtree *)

\* the volume of a defined MBR, stated without the code's fold
RECURSIVE Vol(_)
Vol(m) == IF Len(m) = 0 THEN 1 ELSE (m[1].max - m[1].min) * Vol(Tail(m))

\* by how much the volume of `child` grows when it is made to cover `mbr`
Enlargement(child, mbr) == Vol(Hull({child, mbr})) - Vol(child)

\* `a` is no worse a subtree than `b`: a smaller enlargement, or the same and no more volume
NoWorse(os, a, b, mbr) ==
    \/ Enlargement(get_mbr(os, a), mbr) < Enlargement(get_mbr(os, b), mbr)
    \/ /\ Enlargement(get_mbr(os, a), mbr) = Enlargement(get_mbr(os, b), mbr)
       /\ Vol(get_mbr(os, a)) <= Vol(get_mbr(os, b))

\* the children of `id` the descent may take
Best(os, id, mbr) ==
    {c \in ChildSet(os, id) : \A other \in ChildSet(os, id) : NoWorse(os, c, other, mbr)}

\* the leaves a descent from `id` that takes a best child at every node ends in
RECURSIVE DescentLeaves(_, _, _)
DescentLeaves(os, id, mbr) ==
    IF id.kind = "Leaf" THEN {id}
    ELSE UNION {DescentLeaves(os, c, mbr) : c \in Best(os, id, mbr)}

\* the data id and the MBR of the insert step under way
Inserted == Len(obj_space.data_nodes.slots)

InsertedMbr == get_data(obj_space', Inserted).mbr

\* C22: the insert descends, at every node that is no leaf, into a child of the
\* smallest enlargement, of the smallest volume among those, and ends at the
\* first leaf; when that leaf has room the new datum becomes its child
ChooseSubtree ==
    [][InsertStep =>
          LET leaf == select_node(make_data_node(obj_space, Inserted, InsertedMbr), InsertedMbr)
          IN /\ leaf \in DescentLeaves(obj_space, obj_space.root_id, InsertedMbr)
             /\ Len(get_node(obj_space, leaf).payload) < obj_space.max_records =>
                   /\ get_data(obj_space', Inserted).parent_id = leaf
                   /\ Data(Inserted) \in ChildSet(obj_space', leaf)
                   /\ Len(obj_space'.nodes) = Len(obj_space.nodes)]_vars

\* the fifth insert or a later one went, without a split, to the second of the
\* two leaves of a tree of two levels: the new datum lies inside the MBR of
\* either leaf, so neither needed enlarging, and the second is the smaller one
ChooseSubtreeWitness ==
    /\ ~poisoned /\ LastCall = "insert" /\ OnlyInserts
    /\ Height(obj_space) = 2 /\ Len(obj_space.nodes) = 3
    /\ Len(obj_space.data_nodes.slots) >= 5
    /\ LET id == Len(obj_space.data_nodes.slots) - 1
           mbr == get_data(obj_space, id).mbr
           children == get_node(obj_space, obj_space.root_id).payload
       IN /\ get_data(obj_space, id).parent_id = children[2]
          /\ Hull({get_mbr(obj_space, children[1]), mbr}) = get_mbr(obj_space, children[1])
          /\ Hull({get_mbr(obj_space, children[2]), mbr}) = get_mbr(obj_space, children[2])
          /\ Vol(get_mbr(obj_space, children[1])) > Vol(get_mbr(obj_space, children[2]))

----------------------------------------------------------------------------
(* Shape of the static build *)

\* the number of levels a static build of n data gets
Level(n, max_records) ==
    IF n <= max_records THEN 1
    ELSE CHOOSE l \in 1..n :
            /\ Pow(max_records, l) >= n
            /\ \A smaller \in 1..(l - 1) : Pow(max_records, smaller) < n

\* the numbers of nodes on the paths from `id` down to a data record
RECURSIVE PathLengths(_, _)
PathLengths(os, id) ==
    UNION {IF c.kind = "Data" THEN {1} ELSE {1 + l : l \in PathLengths(os, c)}
              : c \in ChildSet(os, id)}

\* a rebuild of n >= 1 live data that completes leaves a tree in which every
\* path from the root to a data record has as many nodes as Level(n), and whose
\* root is tagged Leaf exactly when that level is 1
StaticHeight ==
    (~poisoned /\ LastCall = "rebuild" /\ data_num(obj_space) >= 1) =>
        /\ PathLengths(obj_space, obj_space.root_id) =
              {Level(data_num(obj_space), obj_space.max_records)}
        /\ Height(obj_space) = Level(data_num(obj_space), obj_space.max_records)
        /\ (obj_space.root_id.kind = "Leaf") <=>
              (Level(data_num(obj_space), obj_space.max_records) = 1)

\* a static build of three levels
StaticHeightWitness ==
    /\ ~poisoned /\ LastCall = "rebuild"
    /\ data_num(obj_space) > obj_space.max_records * obj_space.max_records
    /\ PathLengths(obj_space, obj_space.root_id) = {3}

----------------------------------------------------------------------------
(* The level of a static build, as a function of the number of live data   *)
(* and of max_records                                                       *)

MaxLevelData == 130

LevelParams == {<<2, 2, 3>>, <<2, 2, 4>>, <<2, 3, 5>>}

\* a space made by ObjSpace::with_data of n objects on one tile
InitLevel ==
    /\ \E p \in LevelParams, n \in 1..MaxLevelData :
          /\ valid_params(p[1], p[2], p[3])
          /\ obj_space = with_data(p[1], p[2], p[3], [i \in 1..n |-> <<i - 1, Rect(0, 1, 0, 1)>>])
    /\ poisoned = FALSE
    /\ log = <<"with_data">>
    /\ callbacks = <<>>
    /\ threads = <<>>
    /\ store_checked = FALSE

\* the level and the tag of the root that LRTree::rebuild computes before it
\* builds; callbacks holds them
RebuildLevel ==
    /\ callbacks = <<>>
    /\ callbacks' = <<[level |-> rebuild_level(obj_space), kind |-> rebuild_kind(obj_space)]>>
    /\ UNCHANGED <<obj_space, poisoned, store_checked, log, threads>>

NextLevel == RebuildLevel

SpecLevel == InitLevel /\ [][NextLevel]_vars

\* C23: the level a rebuild of n >= 1 live data builds to is 1 when n is at
\* most max_records, and else the smallest integer with max_records^level >= n;
\* the root is tagged Leaf exactly when the level is 1
LevelIsSmallest ==
    callbacks # <<>> =>
        /\ callbacks[1].level = Level(data_num(obj_space), obj_space.max_records)
        /\ (callbacks[1].kind = "Leaf") <=> (callbacks[1].level = 1)

----------------------------------------------------------------------------
(* Children of a node of the static build *)

\* the smallest k with k^e >= n
RootCeil(n, e) ==
    CHOOSE k \in 0..n : Pow(k, e) >= n /\ \A smaller \in 0..(k - 1) : Pow(smaller, e) < n

\* the nodes a static build populated at a level of 1 or more: those whose
\* children are nodes
Upper(os) == {id \in TreeNodes(os) : \E c \in ChildSet(os, id) : c.kind # "Data"}

\* C24: after a static build with alpha in [0, 0.5], a node populated at level
\* L >= 1 from n data ids has exactly k children, k the smallest integer with
\* k^(L+1) >= n
StaticChildren ==
    (~poisoned /\ LastCall = "rebuild") =>
        \A id \in Upper(obj_space) :
            \A p \in PathLengths(obj_space, id) :
                Len(get_node(obj_space, id).payload) =
                    RootCeil(Cardinality(DataUnder(obj_space, id)), p)

----------------------------------------------------------------------------
(* Visitor: LRTree::visit and visit_helper, run by one thread.  The walk is *)
(* the sequence of the calls made to the visitor; a visit_data of a parked  *)
(* id reads it from the store, which may fault                              *)

visit_data(os, walk, id) ==
    IF storage_get_faults(os.data_nodes, id.id) THEN [walk EXCEPT !.panicked = TRUE]
    ELSE [walk EXCEPT !.calls = Append(@, [call |-> "visit_data", id |-> id])]

enter_node(walk, id) == [walk EXCEPT !.calls = Append(@, [call |-> "enter_node", id |-> id])]

leave_node(walk, id) ==
    IF walk.panicked THEN walk
    ELSE [walk EXCEPT !.calls = Append(@, [call |-> "leave_node", id |-> id])]

RECURSIVE visit_helper(_, _, _)
RECURSIVE visit_children(_, _, _, _)
\* a walk over the last child alone
visit_children_last(os, payload, i, walk) ==
    IF Len(payload) = 0 THEN walk ELSE visit_helper(os, payload[Len(payload)], walk)

\* node.payload.iter().for_each(..)
visit_children(os, payload, i, walk) ==
    IF i > Len(payload) \/ walk.panicked THEN walk
    ELSE visit_children(os, payload, i + 1, visit_helper(os, payload[i], walk))

visit_helper(os, id, walk) ==
    IF id.kind = "Data" THEN visit_data(os, walk, id)
    ELSE leave_node(visit_children(os, get_node(os, id).payload, 1, enter_node(walk, id)), id)

\* LRTree::visit(visitor)
visit(os) ==
    IF is_empty(os) THEN [calls |-> <<>>, panicked |-> FALSE]
    ELSE visit_helper(os, os.root_id, [calls |-> <<>>, panicked |-> FALSE])

\* a visit ends the run; callbacks holds the calls the visitor got
Visited == LastCall = "visit"

Visit ==
    /\ ~poisoned /\ ~Visited
    /\ callbacks' = visit(obj_space).calls
    /\ OpLog("visit")
    /\ UNCHANGED <<obj_space, poisoned, store_checked, threads>>

\* the inserts of a run come before its soft deletions
InsertVisit ==
    /\ ~Visited /\ Calls({"mark_as_removed"}) = 0
    /\ Insert(Arrivals[(Len(obj_space.data_nodes.slots) % Len(Arrivals)) + 1], MaxDynData)

RebuildVisit == \E alpha \in Alphas : ~Visited /\ Rebuild(alpha)

MarkAsRemovedVisit ==
    \E data_ids \in SUBSET (0..(MaxRemove - 1)) : ~Visited /\ MarkAsRemoved(data_ids)

InitVisit == (NewSpace \/ DataSpace) /\ store_checked \in BOOLEAN

NextVisit == InsertVisit \/ RebuildVisit \/ MarkAsRemovedVisit \/ Visit

\* inserts, static builds and soft deletions, and a visit of the tree they leave
SpecVisit == InitVisit /\ [][NextVisit]_vars

\* the places of the calls `call` for `id` in the walk
CallsOf(call, id) == {i \in 1..Len(callbacks) : callbacks[i] = [call |-> call, id |-> id]}

The(places) == CHOOSE i \in places : TRUE

\* where the walk of the child `id` starts and where it ends
Start(id) == The(CallsOf(IF id.kind = "Data" THEN "visit_data" ELSE "enter_node", id))

End(id) == The(CallsOf(IF id.kind = "Data" THEN "visit_data" ELSE "leave_node", id))

\* the number of nodes entered and not left before the i-th call
Nesting(i) ==
    Cardinality({j \in 1..(i - 1) : callbacks[j].call = "enter_node"})
        - Cardinality({j \in 1..(i - 1) : callbacks[j].call = "leave_node"})

\* a visit_data of the walk would read a parked id from a store that faults
VisitFaults ==
    /\ store_checked /\ ~is_empty(obj_space)
    /\ DataUnder(obj_space, obj_space.root_id) \cap obj_space.data_nodes.freed # {}

\* C25: a visit walks the tree depth first and in pre-order: every node is
\* entered once, then its children are walked in the order of its child list,
\* then it is left once; visit_data is called once for every data child; the
\* calls nest, all visit_data are made at one depth, the first node entered is
\* the root, and a space without data gets no call
VisitOrder ==
    (Visited /\ ~VisitFaults) =>
        IF is_empty(obj_space) THEN callbacks = <<>>
        ELSE /\ callbacks[1] = [call |-> "enter_node", id |-> obj_space.root_id]
             /\ get_node(obj_space, obj_space.root_id).parent_id = Root
             /\ \A id \in TreeNodes(obj_space) :
                   /\ Cardinality(CallsOf("enter_node", id)) = 1
                   /\ Cardinality(CallsOf("leave_node", id)) = 1
                   /\ \A c \in ChildSet(obj_space, id) :
                         c.kind = "Data" => Cardinality(CallsOf("visit_data", c)) = 1
             /\ \A id \in TreeNodes(obj_space) :
                   LET payload == get_node(obj_space, id).payload
                   IN /\ Start(id) < End(id)
                      /\ \A j \in 1..Len(payload) :
                            /\ Start(payload[j]) <= End(payload[j])
                            /\ Start(payload[j]) =
                                  IF j = 1 THEN Start(id) + 1 ELSE End(payload[j - 1]) + 1
                      /\ End(id) =
                            IF Len(payload) = 0 THEN Start(id) + 1
                            ELSE End(payload[Len(payload)]) + 1
             /\ End(obj_space.root_id) = Len(callbacks)
             /\ \A i, j \in 1..Len(callbacks) :
                   (callbacks[i].call = "visit_data" /\ callbacks[j].call = "visit_data") =>
                       Nesting(i) = Nesting(j)

\* a walk of the three levels a static build made of a space that holds a parked id
VisitOrderWitness ==
    /\ Visited /\ ~VisitFaults
    /\ Calls({"rebuild"}) > 0
    /\ obj_space.data_nodes.freed # {}
    /\ Height(obj_space) = 3
    /\ \E i \in 1..Len(callbacks) : callbacks[i].call = "visit_data" /\ Nesting(i) = 3

----------------------------------------------------------------------------
(* The MBR algebra as functions: intersects and common_mbr applied to MBRs *)
(* of no, one and two axes with coordinates 0..MaxCoord                     *)

MaxCoord == 2

Intervals ==
    UNION {{Bounds(lo, hi) : hi \in lo..MaxCoord} : lo \in 0..MaxCoord}

\* the valid MBRs (min <= max on every axis) and the undefined one
MbrInputs ==
    {undefined} \cup {<<x>> : x \in Intervals} \cup {<<x, y>> : x \in Intervals, y \in Intervals}

\* a run makes one call; callbacks holds it and what it returned
Intersects ==
    \E lhs \in MbrInputs, rhs \in MbrInputs :
        /\ callbacks = <<>>
        /\ callbacks' = <<[call |-> "intersects", lhs |-> lhs, rhs |-> rhs,
                           result |-> intersects(lhs, rhs)]>>
        /\ UNCHANGED <<obj_space, poisoned, store_checked, log, threads>>

CommonMbr ==
    \E lhs \in MbrInputs, rhs \in MbrInputs :
        /\ callbacks = <<>>
        /\ callbacks' = <<[call |-> "common_mbr", lhs |-> lhs, rhs |-> rhs,
                           result |-> common_mbr(lhs, rhs)]>>
        /\ UNCHANGED <<obj_space, poisoned, store_checked, log, threads>>

InitMbr == NewSpace /\ store_checked = FALSE

NextMbr == Intersects \/ CommonMbr

SpecMbr == InitMbr /\ [][NextMbr]_vars

Called(call) == callbacks # <<>> /\ callbacks[1].call = call

\* two MBRs of as many axes
Alike(a, b) == Len(a) = Len(b)

\* the closed intervals share a point
Meet(x, y) == \E v \in 0..MaxCoord : x.min <= v /\ v <= x.max /\ y.min <= v /\ v <= y.max

\* C26: intersects(a, b) is true exactly when the closed intervals of a and b
\* share a point on every axis; it is symmetric; the undefined MBR intersects
\* every MBR, the undefined one too
IntersectsExact ==
    Called("intersects") =>
        LET a == callbacks[1].lhs
            b == callbacks[1].rhs
        IN /\ (Alike(a, b) /\ ~is_undefined(a)) =>
                  (callbacks[1].result <=> \A i \in 1..Len(a) : Meet(a[i], b[i]))
           /\ callbacks[1].result = intersects(b, a)
           /\ (is_undefined(a) \/ is_undefined(b)) => callbacks[1].result

\* two boxes that share one corner point and nothing else intersect
IntersectsExactWitness ==
    /\ Called("intersects")
    /\ callbacks[1].lhs = Rect(0, 1, 0, 1) /\ callbacks[1].rhs = Rect(1, 2, 1, 2)
    /\ callbacks[1].result

\* C27: common_mbr(a, b) has on every axis the smaller of the two minima and
\* the larger of the two maxima; it is commutative, associative and idempotent,
\* gives no bounds with min > max, and the undefined MBR is its identity
CommonMbrLaws ==
    Called("common_mbr") =>
        LET a == callbacks[1].lhs
            b == callbacks[1].rhs
            c == callbacks[1].result
        IN /\ (Alike(a, b) /\ ~is_undefined(a)) =>
                  /\ Len(c) = Len(a)
                  /\ \A i \in 1..Len(a) :
                        /\ c[i].min \in {a[i].min, b[i].min}
                        /\ c[i].min <= a[i].min /\ c[i].min <= b[i].min
                        /\ c[i].max \in {a[i].max, b[i].max}
                        /\ c[i].max >= a[i].max /\ c[i].max >= b[i].max
           /\ c = common_mbr(b, a)
           /\ \A third \in MbrInputs : common_mbr(c, third) = common_mbr(a, common_mbr(b, third))
           /\ a = b => c = a
           /\ \A i \in 1..Len(c) : c[i].min <= c[i].max
           /\ is_undefined(a) => c = b
           /\ is_undefined(b) => c = a

\* the common MBR of two boxes apart from each other, larger than either
CommonMbrLawsWitness ==
    /\ Called("common_mbr")
    /\ callbacks[1].lhs = Rect(0, 1, 1, 2) /\ callbacks[1].rhs = Rect(2, 2, 0, 0)
    /\ callbacks[1].result = Rect(0, 2, 0, 2)

----------------------------------------------------------------------------
(* Construction parameters: spaces of every (dimension, min_records,        *)
(* max_records) up to MaxRecords that the constructor accepts, and the      *)
(* operations on them                                                       *)

MaxRecords == 5

ParamSpace == (0..2) \X (0..MaxRecords) \X (0..MaxRecords)

\* ObjSpace::new and ObjSpace::with_data; the parameters that fail an assertion
\* of with_data_nodes make no space
InitParams ==
    /\ \E p \in ParamSpace, n \in 0..MaxPreload :
          /\ valid_params(p[1], p[2], p[3])
          /\ obj_space = with_data(p[1], p[2], p[3],
                            [i \in 1..n |-> <<i - 1, SubSeq(Tiles[i], 1, p[1])>>])
    /\ poisoned = FALSE
    /\ log = <<>>
    /\ callbacks = <<>>
    /\ threads = <<>>
    /\ store_checked = FALSE

\* the next of Arrivals, cut to the dimension of the space
InsertParams ==
    /\ Calls({"clone_shrinked", "mark_as_removed"}) = 0
    /\ Insert(SubSeq(Arrivals[(Len(obj_space.data_nodes.slots) % Len(Arrivals)) + 1],
                     1, obj_space.dimension), MaxDynData)

RebuildParams == Calls({"clone_shrinked"}) = 0 /\ Rebuild(45)

MarkAsRemovedParams == Calls({"clone_shrinked"}) = 0 /\ MarkAsRemoved({0})

CloneShrinkedParams == Calls({"clone_shrinked"}) = 0 /\ CloneShrinked

NextParams == InsertParams \/ RebuildParams \/ MarkAsRemovedParams \/ CloneShrinkedParams

SpecParams == InitParams /\ [][NextParams]_vars

\* max_records / 2 rounded up
HalfUp(n) == CHOOSE h \in 0..n : 2 * h >= n /\ 2 * h < n + 2

ParamsOk ==
    /\ obj_space.dimension >= 1
    /\ obj_space.min_records >= 2
    /\ obj_space.min_records <= HalfUp(obj_space.max_records)
    /\ obj_space.min_records < obj_space.max_records
    /\ obj_space.max_records >= 2 * obj_space.min_records - 1

ParamsSame ==
    /\ obj_space'.dimension = obj_space.dimension
    /\ obj_space'.min_records = obj_space.min_records
    /\ obj_space'.max_records = obj_space.max_records

\* C28: every space that new, with_data or clone_shrinked makes has
\* dimension >= 1, min_records >= 2 and min_records <= ceil(max_records / 2),
\* hence min_records < max_records and max_records >= 2 * min_records - 1, and
\* no operation changes the three
ParamsFixed == []ParamsOk /\ [][ParamsSame]_vars

\* the compacted copy of a space of min_records 3 and max_records 5 that held six
\* data or more, one of them parked
ParamsFixedWitness ==
    /\ ~poisoned /\ LastCall = "clone_shrinked"
    /\ obj_space.min_records = 3 /\ obj_space.max_records = 5
    /\ Len(obj_space.data_nodes.slots) >= 5
    /\ Calls({"mark_as_removed"}) = 1

----------------------------------------------------------------------------
(* Panics of the caller's callbacks.  A panic unwinds through the guard the *)
(* operation holds: the RwLock is poisoned when that is the write guard and *)
(* is not when it is a read guard                                           *)

\* LRTree::retain(area, predicate) whose predicate panics when it is called for
\* the data_id-th time it is given; mark_as_removed is not reached
RetainPanics(area, nth) ==
    /\ ~poisoned
    /\ ~search_panics(obj_space, area)
    /\ nth \in 1..Len(search(obj_space, area))
    /\ poisoned' = TRUE
    /\ callbacks' = <<[panic |-> "predicate", id |-> search(obj_space, area)[nth]]>>
    /\ OpLog("retain")
    /\ UNCHANGED <<obj_space, store_checked, threads>>

\* LRTree::search_access(area, handler) whose handler panics
SearchAccessPanics(area, nth) ==
    /\ ~poisoned
    /\ ~search_panics(obj_space, area)
    /\ nth \in 1..Len(search(obj_space, area))
    /\ callbacks' = <<[panic |-> "handler", id |-> search(obj_space, area)[nth]]>>
    /\ OpLog("search_access")
    /\ UNCHANGED <<obj_space, poisoned, store_checked, threads>>

\* LRTree::access_object(record_id, handler) whose handler panics
AccessObjectPanics(record_id) ==
    /\ ~poisoned
    /\ record_id \in LiveIdsOf(obj_space)
    /\ callbacks' = <<[panic |-> "handler", id |-> record_id]>>
    /\ OpLog("access_object")
    /\ UNCHANGED <<obj_space, poisoned, store_checked, threads>>

InsertPanic ==
    /\ Calls({"retain", "search_access", "access_object"}) < MaxOps
    /\ Insert(Arrivals[(Len(obj_space.data_nodes.slots) % Len(Arrivals)) + 1], MaxData)

RetainPanic ==
    \E area \in RetainAreas, keep \in Keeps :
        Calls({"retain", "search_access", "access_object"}) < MaxOps /\ Retain(area, keep)

RetainPanicsAny ==
    \E area \in RetainAreas, nth \in 1..MaxData :
        Calls({"retain", "search_access", "access_object"}) < MaxOps /\ RetainPanics(area, nth)

SearchAccessPanicsAny ==
    \E area \in RetainAreas, nth \in 1..MaxData :
        /\ Calls({"retain", "search_access", "access_object"}) < MaxOps
        /\ SearchAccessPanics(area, nth)

AccessObjectPanicsAny ==
    \E record_id \in 0..(MaxRemove - 1) :
        /\ Calls({"retain", "search_access", "access_object"}) < MaxOps
        /\ AccessObjectPanics(record_id)

InitPanic == NewSpace /\ store_checked = FALSE

NextPanic ==
    \/ InsertPanic \/ RetainPanic \/ RetainPanicsAny
    \/ SearchAccessPanicsAny \/ AccessObjectPanicsAny

SpecPanic == InitPanic /\ [][NextPanic]_vars

\* LRTree::search(area) on the tree as it stands: read().unwrap() panics when
\* the lock is poisoned
tree_search(area) ==
    IF poisoned \/ search_panics(obj_space, area) THEN [found |-> <<>>, panicked |-> TRUE]
    ELSE [found |-> search(obj_space, area), panicked |-> FALSE]

\* the step is an operation whose callback panicked
CallbackPanicked == callbacks' # <<>> /\ "panic" \in DOMAIN callbacks'[1]

\* C29: a panic in a callback of the caller (the predicate of retain, the
\* handler of search_access or access_object) leaves the tree as it was:
\* nothing is soft-deleted, the structure is the same, and a search afterwards
\* returns what it returned before
CallbackPanicHarmless ==
    [][CallbackPanicked =>
          /\ obj_space' = obj_space
          /\ \A area \in Areas : tree_search(area)' = tree_search(area)]_vars

\* a panic of a handler under the read guard leaves the tree and its answers alone
ReadPanicHarmless ==
    [][(CallbackPanicked /\ callbacks'[1].panic = "handler") =>
          /\ obj_space' = obj_space
          /\ \A area \in Areas : tree_search(area)' = tree_search(area)]_vars

\* a panic of the predicate of retain soft-deletes nothing and changes no node
RetainPanicKeepsTree ==
    [][(CallbackPanicked /\ callbacks'[1].panic = "predicate") => obj_space' = obj_space]_vars

----------------------------------------------------------------------------
(* Static builds with any alpha *)

\* alpha in hundredths: those of Alphas, and 0.75 and 1.0
AlphasWide == Alphas \cup {75, 100}

\* LRTree::rebuild(alpha); callbacks holds the alpha given
RebuildWith(alpha) ==
    /\ ~poisoned
    /\ Calls({"rebuild"}) < MaxRebuilds
    /\ Commit(rebuild(obj_space, alpha))
    /\ OpLog("rebuild")
    /\ callbacks' = <<[alpha |-> alpha]>>
    /\ UNCHANGED <<store_checked, threads>>

RebuildWide == \E alpha \in AlphasWide : RebuildWith(alpha)

InsertAlpha ==
    Insert(Arrivals[(Len(obj_space.data_nodes.slots) % Len(Arrivals)) + 1],
           IF OnlyInserts THEN MaxDynData ELSE MaxData)

InitAlpha == (NewSpace \/ DataSpace) /\ store_checked = FALSE

NextAlpha == InsertAlpha \/ RebuildWide

SpecAlpha == InitAlpha /\ [][NextAlpha]_vars

\* C30: a rebuild with an alpha outside [0.0, 0.5] is rejected before the
\* structure is cleared: it leaves the space as it was
AlphaInRange ==
    [][(log' = Append(log, "rebuild") /\ callbacks'[1].alpha \notin 0..50) =>
          obj_space' = obj_space]_vars

\* a rebuild with alpha = 1.0 has built a tree of more than one node
AlphaOutOfRangeBuilds ==
    /\ ~poisoned /\ LastCall = "rebuild"
    /\ callbacks # <<>> /\ callbacks[1].alpha = 100
    /\ Len(obj_space.nodes) > 1

----------------------------------------------------------------------------
(* split_node as a function: applied to every full node of the trees the   *)
(* inserts build, with the extra child an insert would hand it              *)

\* what split_node has to leave of `node_id`, its new sibling and the children given
SplitPost(os, node_id, new_node_id, children) ==
    LET kept == get_node(os, node_id).payload
        moved == get_node(os, new_node_id).payload
    IN /\ new_node_id.kind = node_id.kind
       /\ new_node_id # node_id
       /\ Len(kept) >= os.min_records /\ Len(kept) <= os.max_records
       /\ Len(moved) >= os.min_records /\ Len(moved) <= os.max_records
       /\ Len(kept) + Len(moved) = Len(children)
       /\ SeqToSet(kept) \cup SeqToSet(moved) = SeqToSet(children)
       /\ SeqToSet(kept) \cap SeqToSet(moved) = {}
       /\ \A c \in SeqToSet(kept) : ParentOf(os, c) = node_id
       /\ \A c \in SeqToSet(moved) : ParentOf(os, c) = new_node_id
       /\ NodeMbrExact(os, node_id)
       /\ NodeMbrExact(os, new_node_id)

\* the split of the full node `node_id` for `extra_child_id`, and the split of
\* its parent for the new sibling when the parent is full too, and so on up
RECURSIVE SplitsOk(_, _, _)
SplitsOk(os, node_id, extra_child_id) ==
    LET after == split_node(os, node_id, extra_child_id)
        new_node_id == split_new_node_id(os, node_id)
        parent_id == get_node(os, node_id).parent_id
    IN after.panicked
       \/ /\ SplitPost(after, node_id, new_node_id,
                       Append(get_node(os, node_id).payload, extra_child_id))
          /\ (parent_id # Root /\ Len(get_node(os, parent_id).payload) = os.max_records) =>
                SplitsOk(after, parent_id, new_node_id)

FullLeaves(os) ==
    {n \in TreeNodes(os) : n.kind = "Leaf" /\ Len(get_node(os, n).payload) = os.max_records}

\* C31: split_node of a node of max_records children and one more child
\* leaves the node and a new sibling of its kind with min_records to
\* max_records children each, every child given in exactly one of the two
\* lists and naming its holder as parent, and either MBR the common MBR of the
\* children held
SplitPartitions ==
    (~poisoned /\ OnlyInserts) =>
        \A leaf \in FullLeaves(obj_space), mbr \in MbrsDyn :
            SplitsOk(make_data_node(obj_space, new_object_id(obj_space), mbr),
                     leaf, Data(new_object_id(obj_space)))

\* a full leaf below a full parent: a split of the leaf that completes is
\* followed by a split of the parent
SplitPartitionsWitness ==
    /\ ~poisoned /\ OnlyInserts
    /\ \E leaf \in FullLeaves(obj_space), mbr \in MbrsDyn :
          LET made == make_data_node(obj_space, new_object_id(obj_space), mbr)
              parent_id == get_node(obj_space, leaf).parent_id
              after == split_node(made, leaf, Data(new_object_id(obj_space)))
          IN /\ parent_id # Root
             /\ Len(get_node(obj_space, parent_id).payload) = obj_space.max_records
             /\ ~after.panicked
             /\ ~split_node(after, parent_id, split_new_node_id(made, leaf)).panicked

----------------------------------------------------------------------------
(* select_first_pair as a function: applied to the children a split of a   *)
(* full leaf hands it                                                       *)

\* the children handed to select_first_pair by the split of `leaf` for a datum of `mbr`
SplitRecords(leaf) == Append(get_node(obj_space, leaf).payload, Data(new_object_id(obj_space)))

SplitSpace(mbr) == make_data_node(obj_space, new_object_id(obj_space), mbr)

\* the scan of one axis names what the children have on it: the largest
\* bounds.min, the smallest bounds.max, the least min and the greatest max
ScanExact(os, records, dim) ==
    LET p == first_pair_axis(os, records, dim)
        lows == {get_mbr(os, records[i])[dim].min : i \in 1..Len(records)}
        highs == {get_mbr(os, records[i])[dim].max : i \in 1..Len(records)}
    IN /\ p.max_low \in lows /\ \A v \in lows : v <= p.max_low
       /\ p.min_high \in highs /\ \A v \in highs : p.min_high <= v
       /\ p.min \in lows /\ \A v \in lows : p.min <= v
       /\ p.max \in highs /\ \A v \in highs : v <= p.max
       /\ get_mbr(os, records[p.max_low_idx + 1])[dim].min = p.max_low
       /\ get_mbr(os, records[p.min_high_idx + 1])[dim].max = p.min_high

\* C32: select_first_pair finds on every axis, over all the children, the
\* child of the largest bounds.min and the child of the smallest bounds.max
\* and the overall min and max
FirstPairScans ==
    (~poisoned /\ OnlyInserts) =>
        \A leaf \in FullLeaves(obj_space), mbr \in MbrsDyn, dim \in 1..obj_space.dimension :
            ScanExact(SplitSpace(mbr), SplitRecords(leaf), dim)

\* the seeds returned are two distinct children and the list keeps the others
SeedsApart(os, records) ==
    LET pair == select_first_pair(os, records, os.dimension)
    IN /\ pair.lhs # pair.rhs
       /\ {pair.lhs, pair.rhs} \subseteq SeqToSet(records)
       /\ Len(pair.records) = Len(records) - 2
       /\ SeqToSet(pair.records) = SeqToSet(records) \ {pair.lhs, pair.rhs}

FirstPairDistinct ==
    (~poisoned /\ OnlyInserts) =>
        \A leaf \in FullLeaves(obj_space), mbr \in MbrsDyn :
            first_pair_panics(SplitSpace(mbr), SplitRecords(leaf), obj_space.dimension)
            \/ SeedsApart(SplitSpace(mbr), SplitRecords(leaf))

----------------------------------------------------------------------------
(* Growth of the tree *)

\* the leaf the insert step under way descends to
InsertLeaf == select_node(make_data_node(obj_space, Inserted, InsertedMbr), InsertedMbr)

\* `id` and the nodes above it, up to the root
RECURSIVE Ancestors(_, _)
Ancestors(os, id) ==
    IF get_node(os, id).parent_id.kind = "Root" THEN {id}
    ELSE {id} \cup Ancestors(os, get_node(os, id).parent_id)

\* every node from the leaf up to the root is full: the split of the leaf
\* goes on through every parent and past the root
SplitPastRoot(os, leaf) ==
    \A n \in Ancestors(os, leaf) : Len(get_node(os, n).payload) = os.max_records

\* the new root of obj_space' over the old root and the sibling the split gave it
NewRoot ==
    LET old == obj_space.root_id
        new == obj_space'.root_id
        children == get_node(obj_space', new).payload
    IN /\ new.kind = "Internal"
       /\ new.id >= Len(obj_space.nodes)
       /\ Len(children) = 2
       /\ children[1] = old
       /\ children[2].kind = old.kind
       /\ children[2].id >= Len(obj_space.nodes)
       /\ children[2] # new
       /\ get_node(obj_space', children[1]).parent_id = new
       /\ get_node(obj_space', children[2]).parent_id = new
       /\ get_node(obj_space', new).parent_id = Root
       /\ Height(obj_space') = Height(obj_space) + 1

\* C33: an insert whose split goes past the root allocates a new Internal
\* root over the old root and its sibling, both re-tagged to it, and the
\* height grows by one; every other insert leaves root_id and the height alone
HeightGrowsAtRoot ==
    [][(InsertStep /\ OnlyInserts) =>
          IF SplitPastRoot(obj_space, InsertLeaf)
          THEN NewRoot
          ELSE /\ obj_space'.root_id = obj_space.root_id
               /\ Height(obj_space') = Height(obj_space)]_vars

\* a tree of two levels that an insert has made one of three
HeightGrowsAtRootWitness ==
    /\ ~poisoned /\ OnlyInserts
    /\ Height(obj_space) = 3
    /\ Len(get_node(obj_space, obj_space.root_id).payload) = 2

----------------------------------------------------------------------------
(* Insert into a leaf with room *)

\* the nodes other than `touched` are in obj_space' as they were
NodesKept(touched) ==
    \A i \in 1..Len(obj_space.nodes) :
        /\ obj_space'.nodes[i].parent_id = obj_space.nodes[i].parent_id
        /\ i - 1 \notin {n.id : n \in touched} =>
              obj_space'.nodes[i].mbr = obj_space.nodes[i].mbr

\* the data stored before the step are in obj_space' as they were
DataKept ==
    \A id \in AllIds(obj_space) : get_data(obj_space', id) = get_data(obj_space, id)

\* C34: an insert whose leaf has room appends the datum to the leaf and does
\* no more: no node is allocated, no other child list and no root_id changes,
\* and the MBR of the leaf and of each node above it, and of no other node,
\* becomes the common MBR of what it was and the MBR of the datum
InsertAppends ==
    [][(InsertStep /\ OnlyInserts
            /\ Len(get_node(obj_space, InsertLeaf).payload) < obj_space.max_records) =>
          /\ Len(obj_space'.nodes) = Len(obj_space.nodes)
          /\ obj_space'.root_id = obj_space.root_id
          /\ get_node(obj_space', InsertLeaf).payload
                = Append(get_node(obj_space, InsertLeaf).payload, Data(Inserted))
          /\ \A i \in 1..Len(obj_space.nodes) :
                i - 1 # InsertLeaf.id => obj_space'.nodes[i].payload = obj_space.nodes[i].payload
          /\ \A n \in Ancestors(obj_space, InsertLeaf) :
                get_node(obj_space', n).mbr
                    = Hull({get_node(obj_space, n).mbr, InsertedMbr} \ {undefined})
          /\ NodesKept(Ancestors(obj_space, InsertLeaf))
          /\ DataKept]_vars

\* a datum that went into a leaf with room below the root, and that has made
\* the MBR of the root larger
InsertAppendsWitness ==
    /\ ~poisoned /\ OnlyInserts
    /\ Height(obj_space) = 2
    /\ Len(obj_space.data_nodes.slots) > 0
    /\ LET last == Len(obj_space.data_nodes.slots) - 1
           leaf == get_data(obj_space, last).parent_id
       IN /\ get_node(obj_space, leaf).payload[Len(get_node(obj_space, leaf).payload)]
                = Data(last)
          /\ Len(get_node(obj_space, leaf).payload) = obj_space.max_records
          /\ get_node(obj_space, obj_space.root_id).mbr
                # Hull({get_data(obj_space, id).mbr : id \in AllIds(obj_space) \ {last}})

----------------------------------------------------------------------------
(* Faults of the static build *)

\* a rebuild is called on a tree that holds live data and is not poisoned
RebuildCalled ==
    /\ log' = Append(log, "rebuild")
    /\ ~poisoned
    /\ LiveIds(obj_space) # {}

\* C35: rebuild(alpha) with alpha in [0, 0.5] on a space of at least one live
\* datum with valid MBRs returns without a fault
RebuildReturns == [][RebuildCalled => ~poisoned']_vars

----------------------------------------------------------------------------
(* Balance *)

MaxMixInserts == 2

\* an insert into whatever the space holds, a static build of three levels too
InsertMix ==
    \E mbr \in MbrsDyn :
        /\ Calls({"insert"}) < MaxMixInserts
        /\ Insert(mbr, Len(Tiles) + MaxMixInserts)

RebuildMix == \E alpha \in Alphas : Rebuild(alpha)

InitMix == (NewSpace \/ DataSpace) /\ store_checked = FALSE

NextMix == InsertMix \/ RebuildMix

\* a few inserts around a static build of a space of up to Len(Tiles) data
SpecMix == InitMix /\ [][NextMix]_vars

\* C36: after inserts and rebuilds every path from the root to a data record
\* passes through the same number of nodes
Balanced ==
    ~poisoned => Cardinality(PathLengths(obj_space, obj_space.root_id)) <= 1

\* a static build of three levels, a leaf of which was split for an insert:
\* the datum shares a leaf made by the insert with a datum of the build
BalancedWitness ==
    /\ ~poisoned /\ LastCall = "insert"
    /\ Calls({"rebuild"}) = 1
    /\ PathLengths(obj_space, obj_space.root_id) = {3}
    /\ \E leaf \in {n \in TreeNodes(obj_space) : n.kind = "Leaf"} :
          /\ \E c \in ChildSet(obj_space, leaf) : c.id >= 10
          /\ \E c \in ChildSet(obj_space, leaf) : c.id < 10
          /\ \A n \in TreeNodes(obj_space) : n.id <= leaf.id

----------------------------------------------------------------------------
(* One place for every datum *)

\* the ids the inserts of the run have stored
InsertedIds(os) == {id \in AllIds(os) : id >= Len(os.data_nodes.slots) - Calls({"insert"})}

\* the live ids that were inserted or built into the tree
BoundIds(os) == IF Calls({"rebuild"}) > 0 THEN LiveIds(os) ELSE InsertedIds(os)

\* the places of the data id in the child lists of the leaves reachable from the root
Places(os, id) ==
    {<<n, i>> \in {n \in TreeNodes(os) : n.kind = "Leaf"} \X (1..Len(os.data_nodes.slots)) :
        i <= Len(get_node(os, n).payload) /\ get_node(os, n).payload[i] = Data(id)}

\* no id is twice in what search returned
NoneTwice(found) == Cardinality(SeqToSet(found)) = Len(found)

\* C37: after inserts and rebuilds every live data id that was inserted or
\* built appears once in the child list of one reachable leaf, and a search
\* returns no id twice
OnePlace ==
    ~poisoned =>
        /\ \A id \in BoundIds(obj_space) : Cardinality(Places(obj_space, id)) = 1
        /\ \A area \in Areas : NoneTwice(search(obj_space, area))

\* a rebuild of more than ten data, some of them inserted, that has put an
\* inserted datum and a datum of with_data into one leaf
OnePlaceWitness ==
    /\ ~poisoned /\ LastCall = "rebuild"
    /\ Calls({"insert"}) > 0
    /\ data_num(obj_space) > 10
    /\ \E leaf \in {n \in TreeNodes(obj_space) : n.kind = "Leaf"} :
          /\ \E c \in ChildSet(obj_space, leaf) : c.id \in InsertedIds(obj_space)
          /\ \E c \in ChildSet(obj_space, leaf) : c.id \notin InsertedIds(obj_space)

====
